---- MODULE Spec2Model ----
(***************************************************************************)
(* A model of remblob's tabular codec (shovel.ParquetShovel): CopyIn turns  *)
(* a parquet file into CSV and captures Schema and Metadata, CopyOut turns  *)
(* CSV back into a parquet file, with the stored Schema or with a Schema    *)
(* inferred by type widening.                                               *)
(*                                                                          *)
(* Text is a sequence of one-character strings, so that parsing and         *)
(* formatting are computed character by character.  An int64 is a pair      *)
(* [hi, lo] standing for hi * 10^9 + lo with 0 <= lo < 10^9 (TLC's own      *)
(* integers are 32 bits wide); an int32 is a TLC integer; a float64 is a    *)
(* normalised decimal [m, e] standing for m * 10^e.                         *)
(***************************************************************************)
EXTENDS Integers, Sequences, FiniteSets, TLC

\* Go's nil (an absent cell, a nil pointer, a nil slice).
Nil == [t |-> "nil"]

----------------------------------------------------------------------------
\* Characters and text

Digits == {"0", "1", "2", "3", "4", "5", "6", "7", "8", "9"}

DigitChars == <<"0", "1", "2", "3", "4", "5", "6", "7", "8", "9">>

LowerChars == <<"a", "b", "c", "d", "e", "f", "g", "h", "i", "j", "k", "l", "m", "n", "o", "p", "q", "r", "s", "t", "u", "v", "w", "x", "y", "z">>

UpperChars == <<"A", "B", "C", "D", "E", "F", "G", "H", "I", "J", "K", "L", "M", "N", "O", "P", "Q", "R", "S", "T", "U", "V", "W", "X", "Y", "Z">>

Range(s) == {s[i] : i \in 1..Len(s)}

DigitVal(c) == CHOOSE n \in 0..9 : DigitChars[n + 1] = c

DigitChar(n) == DigitChars[n + 1]

AllDigits(s) == \A i \in 1..Len(s) : s[i] \in Digits

\* The index of the first character of s that is in set, 0 when there is none.
IndexOf(s, set) ==
    IF \E i \in 1..Len(s) : s[i] \in set
    THEN CHOOSE i \in 1..Len(s) : s[i] \in set /\ \A j \in 1..(i - 1) : s[j] \notin set
    ELSE 0

ToUpperChar(c) ==
    IF c \in Range(LowerChars)
    THEN UpperChars[CHOOSE i \in 1..Len(LowerChars) : LowerChars[i] = c]
    ELSE c

IsLetter(c) == c \in Range(LowerChars) \cup Range(UpperChars)

RECURSIVE NatDigits(_)
\* The decimal digits of a natural number, without leading zeros ("0" for 0).
NatDigits(n) ==
    IF n < 10 THEN <<DigitChar(n)>>
    ELSE Append(NatDigits(n \div 10), DigitChar(n % 10))

RECURSIVE ZeroPad(_, _)
\* s padded on the left with zeros to at least w characters.
ZeroPad(s, w) == IF Len(s) >= w THEN s ELSE ZeroPad(<<"0">> \o s, w)

RECURSIVE DigitsToNat(_, _)
\* The value of a digit string (acc is the value read so far).
DigitsToNat(ds, acc) ==
    IF ds = <<>> THEN acc
    ELSE DigitsToNat(Tail(ds), acc * 10 + DigitVal(Head(ds)))

RECURSIVE StripZeros(_)
\* ds without its leading zeros.
StripZeros(ds) ==
    IF ds # <<>> /\ Head(ds) = "0" THEN StripZeros(Tail(ds)) ELSE ds

----------------------------------------------------------------------------
\* int64 as hi * 10^9 + lo

Billion == 1000 * 1000 * 1000

I64(n) == [hi |-> n \div Billion, lo |-> n % Billion]

I64Zero == [hi |-> 0, lo |-> 0]

I64IsNeg(p) == p.hi < 0

I64Neg(p) ==
    IF p.lo = 0 THEN [hi |-> -p.hi, lo |-> 0]
    ELSE [hi |-> -p.hi - 1, lo |-> Billion - p.lo]

I64Abs(p) == IF I64IsNeg(p) THEN I64Neg(p) ELSE p

\* p as a TLC integer, for p within the 32-bit range.
I64Small(p) ==
    IF p.hi >= 0 THEN p.hi * Billion + p.lo
    ELSE (p.hi + 1) * Billion + (p.lo - Billion)

I64FitsInt32(p) ==
    \/ p.hi \in -2..1
    \/ p.hi = 2 /\ p.lo <= 147483647
    \/ p.hi = -3 /\ p.lo >= 852516352

I64Add(p, q) ==
    LET lo == p.lo + (q.lo - Billion)
    IN  IF lo >= 0 THEN [hi |-> p.hi + q.hi + 1, lo |-> lo]
        ELSE [hi |-> p.hi + q.hi, lo |-> lo + Billion]

TwoTo32 == [hi |-> 4, lo |-> 294967296]

RECURSIVE WrapInt32(_)
\* int32(p): p reduced modulo 2^32 into the int32 range.
WrapInt32(p) ==
    IF I64FitsInt32(p) THEN I64Small(p)
    ELSE IF I64IsNeg(p) THEN WrapInt32(I64Add(p, TwoTo32))
    ELSE WrapInt32(I64Add(p, I64Neg(TwoTo32)))

RECURSIVE DigitsToI64(_, _)
\* The value of a digit string as an int64 (acc is the value read so far).
DigitsToI64(ds, acc) ==
    IF ds = <<>> THEN acc
    ELSE LET d == DigitVal(Head(ds))
             carry == acc.lo \div (Billion \div 10)
             rest == (acc.lo % (Billion \div 10)) * 10 + d
         IN  DigitsToI64(Tail(ds), [hi |-> acc.hi * 10 + carry, lo |-> rest])

----------------------------------------------------------------------------
\* strconv and fmt

Signs == {"+", "-"}

\* s without a leading sign.
Unsigned(s) == IF s # <<>> /\ Head(s) \in Signs THEN Tail(s) ELSE s

HasMinus(s) == s # <<>> /\ Head(s) = "-"

\* strconv.ParseInt(s, 10, 64) succeeds: an optional sign and one or more digits.
\* (Literals of more than 18 digits are outside the inputs of this model.)
IsInt(s) == Unsigned(s) # <<>> /\ AllDigits(Unsigned(s))

\* The int64 strconv.ParseInt(s, 10, 64) returns.
ParseInt(s) ==
    LET mag == DigitsToI64(Unsigned(s), I64Zero)
    IN  IF HasMinus(s) THEN I64Neg(mag) ELSE mag

\* The mantissa and exponent parts of a decimal floating-point literal.
FloatParts(s) ==
    LET u == Unsigned(s)
        ePos == IndexOf(u, {"e", "E"})
        mant == IF ePos = 0 THEN u ELSE SubSeq(u, 1, ePos - 1)
        expo == IF ePos = 0 THEN <<>> ELSE SubSeq(u, ePos + 1, Len(u))
        dot == IndexOf(mant, {"."})
    IN  [int |-> IF dot = 0 THEN mant ELSE SubSeq(mant, 1, dot - 1),
         frac |-> IF dot = 0 THEN <<>> ELSE SubSeq(mant, dot + 1, Len(mant)),
         hasExp |-> ePos # 0,
         exp |-> expo]

\* strconv.ParseFloat(s, 64) succeeds, for the decimal literals: an optional
\* sign, digits with at most one point and at least one digit, and an optional
\* exponent with at least one digit.  (Hexadecimal literals, underscores, Inf
\* and NaN are outside the inputs of this model.)
IsFloat(s) ==
    LET p == FloatParts(s)
    IN  /\ AllDigits(p.int)
        /\ AllDigits(p.frac)
        /\ Len(p.int) + Len(p.frac) >= 1
        /\ p.hasExp => (Unsigned(p.exp) # <<>> /\ AllDigits(Unsigned(p.exp)))

RECURSIVE Normalise(_, _)
\* The decimal m * 10^e with the trailing zeros of m moved into e.
Normalise(m, e) ==
    IF m = 0 THEN [m |-> 0, e |-> 0]
    ELSE IF m % 10 = 0 THEN Normalise(m \div 10, e + 1)
    ELSE [m |-> m, e |-> e]

\* The float64 strconv.ParseFloat(s, 64) returns (mantissas of at most nine
\* significant digits, which a float64 tells apart).
ParseFloat(s) ==
    LET p == FloatParts(s)
        mag == DigitsToNat(StripZeros(p.int \o p.frac), 0)
        ex == IF p.hasExp
              THEN (IF HasMinus(p.exp) THEN -1 ELSE 1) * DigitsToNat(Unsigned(p.exp), 0)
              ELSE 0
    IN  Normalise(IF HasMinus(s) THEN -mag ELSE mag, ex - Len(p.frac))

TrueTexts == {<<"1">>, <<"t">>, <<"T">>, <<"T", "R", "U", "E">>, <<"t", "r", "u", "e">>, <<"T", "r", "u", "e">>}

FalseTexts == {<<"0">>, <<"f">>, <<"F">>, <<"F", "A", "L", "S", "E">>, <<"f", "a", "l", "s", "e">>, <<"F", "a", "l", "s", "e">>}

\* strconv.ParseBool(s) succeeds.
IsBool(s) == s \in TrueTexts \cup FalseTexts

ParseBool(s) == s \in TrueTexts

\* strconv.FormatBool
FormatBool(b) == IF b THEN <<"t", "r", "u", "e">> ELSE <<"f", "a", "l", "s", "e">>

\* fmt's %d of a nonnegative int64.
FormatMag(p) ==
    IF p.hi = 0 THEN NatDigits(p.lo)
    ELSE NatDigits(p.hi) \o ZeroPad(NatDigits(p.lo), 9)

\* fmt's %d of an int64.
FormatInt(p) == IF I64IsNeg(p) THEN <<"-">> \o FormatMag(I64Neg(p)) ELSE FormatMag(p)

Abs(n) == IF n < 0 THEN -n ELSE n

\* fmt's %g (and %v) of a float64: the shortest digits that give the value
\* back, in %e form when the decimal exponent is below -4 or at least 6.
FormatFloat(f) ==
    LET ds == NatDigits(Abs(f.m))
        nd == Len(ds)
        dp == nd + f.e
        x == dp - 1
        sign == IF f.m < 0 THEN <<"-">> ELSE <<>>
        digitAt(i) == IF i >= 1 /\ i <= nd THEN ds[i] ELSE "0"
        eForm == <<ds[1]>>
                 \o (IF nd > 1 THEN <<".">> \o SubSeq(ds, 2, nd) ELSE <<>>)
                 \o <<"e", IF x < 0 THEN "-" ELSE "+">>
                 \o ZeroPad(NatDigits(Abs(x)), 2)
        intPart == IF dp > 0 THEN [i \in 1..dp |-> digitAt(i)] ELSE <<"0">>
        prec == IF nd - dp > 0 THEN nd - dp ELSE 0
        fForm == intPart
                 \o (IF prec > 0 THEN <<".">> \o [i \in 1..prec |-> digitAt(dp + i)] ELSE <<>>)
    IN  IF f.m = 0 THEN <<"0">>
        ELSE sign \o (IF x < -4 \/ x >= 6 THEN eForm ELSE fForm)

RECURSIVE Pow10(_)
Pow10(n) == IF n = 0 THEN 1 ELSE 10 * Pow10(n - 1)

\* float64(p) for an int64 below 10^9 in magnitude.
IntToFloat(p) == Normalise(I64Small(p), 0)

\* int64(f): the float64 truncated toward zero (values below 10^9 in magnitude).
FloatToInt(f) ==
    LET mag == IF f.e >= 0 THEN Abs(f.m) * Pow10(f.e)
               ELSE IF -f.e > 9 THEN 0
               ELSE Abs(f.m) \div Pow10(-f.e)
    IN  I64(IF f.m < 0 THEN -mag ELSE mag)

----------------------------------------------------------------------------
\* package time: the proleptic Gregorian calendar, Format and Parse

\* The civil date [y, m, d] that is n days after 1970-01-01 (what
\* time.Date(1970, 1, 1, ...).AddDate(0, 0, n) denotes).
CivilFromDays(n) ==
    LET z == n + 719468
        era == z \div 146097
        doe == z - era * 146097
        yoe == (doe - doe \div 1460 + doe \div 36524 - doe \div 146096) \div 365
        doy == doe - (365 * yoe + yoe \div 4 - yoe \div 100)
        mp == (5 * doy + 2) \div 153
        mon == IF mp < 10 THEN mp + 3 ELSE mp - 9
    IN  [y |-> yoe + era * 400 + (IF mon <= 2 THEN 1 ELSE 0),
         m |-> mon,
         d |-> doy - (153 * mp + 2) \div 5 + 1]

\* The number of days from 1970-01-01 to the civil date y-m-d.
DaysFromCivil(y, m, d) ==
    LET yy == IF m <= 2 THEN y - 1 ELSE y
        era == yy \div 400
        yoe == yy - era * 400
        doy == (153 * (IF m > 2 THEN m - 3 ELSE m + 9) + 2) \div 5 + d - 1
        doe == yoe * 365 + yoe \div 4 - yoe \div 100 + doy
    IN  era * 146097 + doe - 719468

IsLeap(y) == y % 4 = 0 /\ (y % 100 # 0 \/ y % 400 = 0)

DaysIn(m, y) ==
    IF m = 2 THEN (IF IsLeap(y) THEN 29 ELSE 28)
    ELSE IF m \in {4, 6, 9, 11} THEN 30 ELSE 31

\* Format's "2006": at least four digits, a minus sign for a negative year.
FormatYear(y) ==
    IF y < 0 THEN <<"-">> \o ZeroPad(NatDigits(-y), 4) ELSE ZeroPad(NatDigits(y), 4)

\* time.Time.Format("2006-01-02") of the date n days after the epoch.
FormatDate(n) ==
    LET c == CivilFromDays(n)
    IN  FormatYear(c.y) \o <<"-">> \o ZeroPad(NatDigits(c.m), 2)
        \o <<"-">> \o ZeroPad(NatDigits(c.d), 2)

\* time.Parse("2006-01-02", s) succeeds: four digits, "-", two digits, "-",
\* two digits and nothing more, naming a month and a day that exist.
IsDate(s) ==
    /\ Len(s) = 10
    /\ AllDigits(SubSeq(s, 1, 4)) /\ s[5] = "-"
    /\ AllDigits(SubSeq(s, 6, 7)) /\ s[8] = "-"
    /\ AllDigits(SubSeq(s, 9, 10))
    /\ LET y == DigitsToNat(SubSeq(s, 1, 4), 0)
           m == DigitsToNat(SubSeq(s, 6, 7), 0)
           d == DigitsToNat(SubSeq(s, 9, 10), 0)
       IN  m \in 1..12 /\ d >= 1 /\ d <= DaysIn(m, y)

\* The day count of the date time.Parse("2006-01-02", s) returns.
ParseDate(s) ==
    DaysFromCivil(DigitsToNat(SubSeq(s, 1, 4), 0),
                  DigitsToNat(SubSeq(s, 6, 7), 0),
                  DigitsToNat(SubSeq(s, 9, 10), 0))

\* The largest whole number of days a time.Duration (an int64 count of
\* nanoseconds) holds: (2^63 - 1) \div (86400 * 10^9).  Time.Sub saturates at
\* the largest and the smallest Duration.
MaxDurationDays == 106751

\* int32(t.Sub(epoch).Hours() / 24) for the date n days after the epoch.
DaysSinceEpoch(n) ==
    IF n > MaxDurationDays THEN MaxDurationDays
    ELSE IF n < -MaxDurationDays THEN -MaxDurationDays
    ELSE n

SecondsPerDay == 24 * 60 * 60

\* time.Unix(0, p).UTC().Format("2006-01-02 15:04:05.000000000"): p.hi is the
\* second and p.lo the nanosecond within it.
FormatTimestamp(p) ==
    LET sod == p.hi % SecondsPerDay
    IN  FormatDate(p.hi \div SecondsPerDay) \o <<" ">>
        \o ZeroPad(NatDigits(sod \div 3600), 2) \o <<":">>
        \o ZeroPad(NatDigits((sod % 3600) \div 60), 2) \o <<":">>
        \o ZeroPad(NatDigits(sod % 60), 2) \o <<".">>
        \o ZeroPad(NatDigits(p.lo), 9)

\* The part of a timestamp text after the date and the space: Parse's "15"
\* takes one or two digits, "04" and "05" two, ".000000000" nine.
ClockParts(s) ==
    LET rest == SubSeq(s, 12, Len(s))
        hLen == IF Len(rest) >= 2 /\ rest[2] \in Digits THEN 2 ELSE 1
    IN  [h |-> SubSeq(rest, 1, hLen), tail |-> SubSeq(rest, hLen + 1, Len(rest))]

\* time.Parse("2006-01-02 15:04:05.000000000", s) succeeds.
IsTimestamp(s) ==
    /\ Len(s) >= 12
    /\ IsDate(SubSeq(s, 1, 10)) /\ s[11] = " "
    /\ LET c == ClockParts(s)
       IN  /\ c.h # <<>> /\ AllDigits(c.h) /\ DigitsToNat(c.h, 0) < 24
           /\ Len(c.tail) = 16
           /\ c.tail[1] = ":" /\ AllDigits(SubSeq(c.tail, 2, 3))
           /\ DigitsToNat(SubSeq(c.tail, 2, 3), 0) < 60
           /\ c.tail[4] = ":" /\ AllDigits(SubSeq(c.tail, 5, 6))
           /\ DigitsToNat(SubSeq(c.tail, 5, 6), 0) < 60
           /\ c.tail[7] = "." /\ AllDigits(SubSeq(c.tail, 8, 16))

\* The UnixNano of the time time.Parse("2006-01-02 15:04:05.000000000", s)
\* returns (for the years whose second count fits 32 bits).
ParseTimestamp(s) ==
    LET c == ClockParts(s)
    IN  [hi |-> ParseDate(SubSeq(s, 1, 10)) * SecondsPerDay
                + DigitsToNat(c.h, 0) * 3600
                + DigitsToNat(SubSeq(c.tail, 2, 3), 0) * 60
                + DigitsToNat(SubSeq(c.tail, 5, 6), 0),
         lo |-> DigitsToNat(SubSeq(c.tail, 8, 16), 0)]

----------------------------------------------------------------------------
\* shovel/parquet.go: values, fields and the helper functions
\*
\* A Go value is Nil or [t |-> its dynamic type, v |-> the value].  A
\* parquetField is [Name, Type, ConvertedType, LogicalType]; ConvertedType is
\* "" for a nil pointer, LogicalType is NoLogical for a nil pointer.

BoolVal(b) == [t |-> "bool", v |-> b]

Int32Val(n) == [t |-> "int32", v |-> n]

Int64Val(p) == [t |-> "int64", v |-> p]

Float64Val(f) == [t |-> "float64", v |-> f]

StringVal(s) == [t |-> "string", v |-> s]

NoLogical == [kind |-> "", unit |-> "", utc |-> FALSE]

Timestamp(unit, utc) == [kind |-> "TIMESTAMP", unit |-> unit, utc |-> utc]

LogicalDate == [kind |-> "DATE", unit |-> "", utc |-> FALSE]

Field(name, type, converted, logical) ==
    [Name |-> name, Type |-> type, ConvertedType |-> converted, LogicalType |-> logical]

\* fmt.Sprintf("%v", value) for the values a CSV cell parses to.
SprintV(value) ==
    CASE value.t = "string" -> value.v
      [] value.t = "int64" -> FormatInt(value.v)
      [] value.t = "int32" -> FormatInt(I64(value.v))
      [] value.t \in {"float64", "float32"} -> FormatFloat(value.v)
      [] value.t = "bool" -> FormatBool(value.v)
      [] OTHER -> <<"<", "n", "i", "l", ">">>

formatCSVValue(value, field) ==
    IF value = Nil THEN <<>>
    ELSE IF field # Nil /\ field.ConvertedType = "DATE" /\ value.t = "int32"
    THEN FormatDate(value.v)
    ELSE IF field # Nil /\ field.LogicalType.kind = "TIMESTAMP" /\ value.t = "int64"
    THEN FormatTimestamp(value.v)
    ELSE SprintV(value)

parseCSVValue(value) ==
    IF value = <<>> THEN Nil
    ELSE IF IsInt(value) THEN Int64Val(ParseInt(value))
    ELSE IF IsFloat(value) THEN Float64Val(ParseFloat(value))
    ELSE IF IsBool(value) THEN BoolVal(ParseBool(value))
    ELSE StringVal(value)

typeEmpty == 0

typeBoolean == 1

typeInt == 2

typeFloat == 3

typeString == 4

getValueTypeRank(value) ==
    IF value = Nil THEN typeEmpty
    ELSE IF value.t = "string"
    THEN IF value.v = <<>> THEN typeEmpty
         ELSE IF IsBool(value.v) THEN typeBoolean
         ELSE IF IsInt(value.v) THEN typeInt
         ELSE IF IsFloat(value.v) THEN typeFloat
         ELSE typeString
    ELSE IF value.t = "bool" THEN typeBoolean
    ELSE IF value.t \in {"int32", "int64"} THEN typeInt
    ELSE IF value.t \in {"float32", "float64"} THEN typeFloat
    ELSE typeString

typeRankToParquetType(rank) ==
    CASE rank = typeEmpty -> "BYTE_ARRAY"
      [] rank = typeBoolean -> "BOOLEAN"
      [] rank = typeInt -> "INT64"
      [] rank = typeFloat -> "DOUBLE"
      [] rank = typeString -> "BYTE_ARRAY"
      [] OTHER -> "BYTE_ARRAY"

\* One turn of the loop of determineWidestType: the rank after a record whose
\* value ranks rank.
Widened(rank, current) == IF rank > current THEN rank ELSE current

RECURSIVE WidestRank(_, _, _), WidestFrom(_, _, _)
\* The loop of determineWidestType: the rank after the records from the first
\* on, starting at rank current; it stops once the rank is typeString.
WidestRank(fieldName, records, current) ==
    IF records = <<>> THEN current
    ELSE IF fieldName \notin DOMAIN Head(records)
    THEN WidestRank(fieldName, Tail(records), current)
    ELSE WidestFrom(fieldName, Tail(records),
                    Widened(getValueTypeRank(Head(records)[fieldName]), current))

WidestFrom(fieldName, records, next) ==
    IF next = typeString THEN next ELSE WidestRank(fieldName, records, next)

determineWidestType(fieldName, records) ==
    typeRankToParquetType(WidestRank(fieldName, records, typeEmpty))

inferSchemaWithTypeWidening(records, headers) ==
    IF Len(records) = 0 THEN [Fields |-> <<>>]
    ELSE [Fields |-> [i \in 1..Len(headers) |->
                        Field(headers[i], determineWidestType(headers[i], records), "", NoLogical)]]

\* The Go type of the struct field that holds a column.
parquetTypeToGoType(parquetType) ==
    CASE parquetType = "BOOLEAN" -> "bool"
      [] parquetType = "INT32" -> "int32"
      [] parquetType = "INT64" -> "int64"
      [] parquetType = "FLOAT" -> "float32"
      [] parquetType = "DOUBLE" -> "float64"
      [] parquetType \in {"BYTE_ARRAY", "FIXED_LEN_BYTE_ARRAY"} -> "string"
      [] OTHER -> "string"

\* The column a struct tag declares: [Type, ConvertedType, LogicalType].
Tag(type, converted, logical) ==
    [Type |-> type, ConvertedType |-> converted, LogicalType |-> logical]

getParquetTagTypeWithLogical(field) ==
    IF field.LogicalType.kind = "TIMESTAMP"
    THEN Tag(field.Type, "", Timestamp("NANOS", FALSE))
    ELSE IF field.LogicalType.kind = "DATE"
    THEN Tag(field.Type, "", LogicalDate)
    ELSE IF field.ConvertedType \in {"DATE", "UTF8"}
    THEN Tag(field.Type, field.ConvertedType, NoLogical)
    ELSE IF field.Type \in {"BOOLEAN", "INT32", "INT64", "FLOAT", "DOUBLE"}
    THEN Tag(field.Type, "", NoLogical)
    ELSE Tag("BYTE_ARRAY", "UTF8", NoLogical)

normalizeFieldName(name) ==
    LET kept == SelectSeq(name, LAMBDA c : c \notin {".", "-", " "})
        titled == IF Len(kept) > 0 THEN <<ToUpperChar(kept[1])>> \o Tail(kept) ELSE kept
        lettered == IF Len(titled) > 0 /\ ~IsLetter(titled[1])
                    THEN <<"F", "i", "e", "l", "d">> \o titled ELSE titled
    IN  IF lettered = <<>> THEN <<"F", "i", "e", "l", "d">> ELSE lettered

\* createStructTypeFromSchema: the struct type, one field per column, or a
\* panic: reflect.StructOf panics when two fields have the same name.
createStructTypeFromSchema(schema) ==
    LET fields == [i \in 1..Len(schema.Fields) |->
                     [Name |-> normalizeFieldName(schema.Fields[i].Name),
                      Type |-> parquetTypeToGoType(schema.Fields[i].Type),
                      Column |-> schema.Fields[i].Name,
                      Tag |-> getParquetTagTypeWithLogical(schema.Fields[i])]]
    IN  IF \E i, j \in 1..Len(fields) : i # j /\ fields[i].Name = fields[j].Name
        THEN [panic |-> TRUE, fields |-> <<>>]
        ELSE [panic |-> FALSE, fields |-> fields]

\* The zero value with a fault: a number field starts at one.
ZeroValueFromOne(goType) ==
    CASE goType = "bool" -> BoolVal(FALSE)
      [] goType = "int32" -> Int32Val(1)
      [] goType = "int64" -> Int64Val([hi |-> 0, lo |-> 1])
      [] goType \in {"float32", "float64"} -> [t |-> goType, v |-> [m |-> 1, e |-> 0]]
      [] OTHER -> StringVal(<<>>)

\* The zero value of a Go type.
ZeroValue(goType) ==
    CASE goType = "bool" -> BoolVal(FALSE)
      [] goType = "int32" -> Int32Val(0)
      [] goType = "int64" -> Int64Val(I64Zero)
      [] goType \in {"float32", "float64"} -> [t |-> goType, v |-> [m |-> 0, e |-> 0]]
      [] OTHER -> StringVal(<<>>)

\* convertToInt64 and the others return [ok, v].
Converted(v) == [ok |-> TRUE, v |-> v]

NotConverted == [ok |-> FALSE, v |-> Nil]

convertToInt64(value) ==
    CASE value.t = "int32" -> Converted(I64(value.v))
      [] value.t = "int64" -> Converted(value.v)
      [] value.t \in {"float32", "float64"} -> Converted(FloatToInt(value.v))
      [] value.t = "string" /\ IsInt(value.v) -> Converted(ParseInt(value.v))
      [] OTHER -> NotConverted

convertToFloat64(value) ==
    CASE value.t = "int32" -> Converted(IntToFloat(I64(value.v)))
      [] value.t = "int64" -> Converted(IntToFloat(value.v))
      [] value.t \in {"float32", "float64"} -> Converted(value.v)
      [] value.t = "string" /\ IsFloat(value.v) -> Converted(ParseFloat(value.v))
      [] OTHER -> NotConverted

convertToBool(value) ==
    CASE value.t = "bool" -> Converted(value.v)
      [] value.t = "int32" -> Converted(value.v # 0)
      [] value.t = "int64" -> Converted(value.v # I64Zero)
      [] value.t = "string" /\ IsBool(value.v) -> Converted(ParseBool(value.v))
      [] OTHER -> NotConverted

\* reflect.Value.SetInt on a field of the given integer type.
SetInt(goType, p) == IF goType = "int32" THEN Int32Val(WrapInt32(p)) ELSE Int64Val(p)

\* reflect's ConvertibleTo between the types that reach the end of
\* setFieldValue: the numeric types convert to one another, nothing else does.
ConvertibleTo(sourceType, targetType) ==
    /\ sourceType \in {"int32", "int64", "float32", "float64"}
    /\ targetType \in {"int32", "int64", "float32", "float64"}

\* setFieldValue: [ok, v], v the value the struct field holds afterwards.
setFieldValue(targetType, value, field) ==
    IF value = Nil THEN Converted(ZeroValue(targetType))
    ELSE IF value.t = targetType THEN Converted(value)
    ELSE IF /\ field # Nil /\ targetType = "int32" /\ field.ConvertedType = "DATE"
            /\ value.t = "string" /\ IsDate(value.v)
    THEN Converted(Int32Val(DaysSinceEpoch(ParseDate(value.v))))
    ELSE IF /\ field # Nil /\ targetType = "int64" /\ field.LogicalType.kind = "TIMESTAMP"
            /\ value.t = "string" /\ IsTimestamp(value.v)
    THEN Converted(Int64Val(ParseTimestamp(value.v)))
    ELSE IF targetType = "string" THEN Converted(StringVal(SprintV(value)))
    ELSE IF targetType \in {"int32", "int64"} /\ convertToInt64(value).ok
    THEN Converted(SetInt(targetType, convertToInt64(value).v))
    ELSE IF targetType \in {"float32", "float64"} /\ convertToFloat64(value).ok
    THEN Converted([t |-> targetType, v |-> convertToFloat64(value).v])
    ELSE IF targetType = "bool" /\ convertToBool(value).ok
    THEN Converted(BoolVal(convertToBool(value).v))
    ELSE IF ConvertibleTo(value.t, targetType)
    THEN Converted([t |-> targetType, v |-> value.v])
    ELSE NotConverted

\* An error value: its kind, and for a type conversion error the field name,
\* the row number and the quoted value of the message.
Error(kind, field, row, value) == [kind |-> kind, field |-> field, row |-> row, value |-> value]

NoError == Error("", <<>>, 0, <<>>)

\* One turn of the loop of convertMapToStruct: set is what setFieldValue
\* returned for the field, rest what the loop does with the fields after it.
ConvertField(set, rest, field, record, rowNumber) ==
    IF ~set.ok
    THEN [err |-> Error("convert", field.Name, rowNumber, SprintV(record[field.Name])),
          row |-> <<>>]
    ELSE IF rest.err # NoError THEN rest
    ELSE [err |-> NoError, row |-> <<set.v>> \o rest.row]

RECURSIVE ConvertFields(_, _, _, _, _)
\* The loop of convertMapToStruct from schema field i on: the values of the
\* struct fields, or the error of the first field that does not convert.
ConvertFields(record, structType, schema, rowNumber, i) ==
    IF i > Len(schema.Fields) THEN [err |-> NoError, row |-> <<>>]
    ELSE ConvertField(IF schema.Fields[i].Name \in DOMAIN record
                      THEN setFieldValue(structType[i].Type, record[schema.Fields[i].Name],
                                         schema.Fields[i])
                      ELSE Converted(ZeroValue(structType[i].Type)),
                      ConvertFields(record, structType, schema, rowNumber, i + 1),
                      schema.Fields[i], record, rowNumber)

convertMapToStruct(record, structType, schema, rowNumber) ==
    ConvertFields(record, structType, schema, rowNumber, 1)

----------------------------------------------------------------------------
\* encoding/csv: a CSV file is the sequence of the records written to it.  A
\* record of one empty field is written as an empty line, and the reader
\* skips empty lines.

IsEmptyLine(record) == record = <<>> \/ record = << <<>> >>

\* The records csv.Reader returns for a file.
csvRecords(file) == SelectSeq(file, LAMBDA record : ~IsEmptyLine(record))

\* csv.Reader.ReadAll after the header was read with Read: FieldsPerRecord is
\* the header's field count by then, and a record with another field count
\* ends ReadAll with ErrFieldCount.
ReadAllFails(headers, csvRecs) == \E i \in 1..Len(csvRecs) : Len(csvRecs[i]) # Len(headers)

----------------------------------------------------------------------------
\* A parquet file is [schema, kv, rows]: the leaf columns as parquetFields,
\* the footer's key/value metadata (Nil or [list |-> the pairs]) and the rows,
\* each row the values of its columns in schema order.

File(schema, kv, rows) == [schema |-> schema, kv |-> kv, rows |-> rows]

extractSchema(file) ==
    [Fields |-> SelectSeq(file.schema, LAMBDA element : element.Name # <<>> /\ element.Type # "")]

\* The last index of sequence names that holds name.
LastIndex(names, name) ==
    CHOOSE i \in 1..Len(names) : names[i] = name /\ \A j \in (i + 1)..Len(names) : names[j] # name

\* The first field of the schema with the name.
FirstField(schema, name) ==
    schema.Fields[CHOOSE i \in 1..Len(schema.Fields) :
                    /\ schema.Fields[i].Name = name
                    /\ \A j \in 1..(i - 1) : schema.Fields[j].Name # name]

\* extractFieldValues: the map from field name to value of one row; a later
\* field of the same name overwrites an earlier one.
extractFieldValues(row, schema) ==
    LET names == [i \in 1..Len(schema.Fields) |-> schema.Fields[i].Name]
    IN  [name \in Range(names) |-> row[LastIndex(names, name)]]

\* writeRecordAsCSV: the CSV record of one row.
writeRecordAsCSV(record, headers, schema) ==
    [i \in 1..Len(headers) |->
        IF headers[i] \in DOMAIN record
        THEN formatCSVValue(record[headers[i]], FirstField(schema, headers[i]))
        ELSE <<>>]

\* The headers CopyIn writes: the field names in schema order.
Headers(schema) == [i \in 1..Len(schema.Fields) |-> schema.Fields[i].Name]

\* CopyIn with a fault: the header is written only together with a first row.
CopyInCSVWithoutHeader(file) ==
    IF file.rows = <<>> THEN <<>>
    ELSE <<Headers(extractSchema(file))>>
         \o [r \in 1..Len(file.rows) |->
               writeRecordAsCSV(extractFieldValues(file.rows[r], extractSchema(file)),
                                Headers(extractSchema(file)), extractSchema(file))]

\* The CSV file a successful CopyIn writes for a parquet file.
CopyInCSV(file) ==
    LET schema == extractSchema(file)
    IN  <<Headers(schema)>>
        \o [r \in 1..Len(file.rows) |->
              writeRecordAsCSV(extractFieldValues(file.rows[r], schema), Headers(schema), schema)]

\* The record map with a fault: the cells are taken from the other end of
\* the record.
RecordMapMirrored(headers, csvRecord) ==
    [name \in Range(headers) |->
        parseCSVValue(csvRecord[Len(headers) + 1 - LastIndex(headers, name)])]

\* The map CopyOut builds from one CSV record; a later column of the same
\* name overwrites an earlier one.
RecordMap(headers, csvRecord) ==
    [name \in Range(headers) |-> parseCSVValue(csvRecord[LastIndex(headers, name)])]

\* The records CopyOut converts: the CSV records as maps, those of another
\* field count than the header skipped.
RecordMaps(headers, csvRecs) ==
    LET kept == SelectSeq(csvRecs, LAMBDA csvRecord : Len(csvRecord) = Len(headers))
    IN  [i \in 1..Len(kept) |-> RecordMap(headers, kept[i])]

\* One turn of the write loop of CopyOut: one is what convertMapToStruct
\* returned for the record, rest what the loop does with the records after it.
ConvertRow(one, rest) ==
    IF one.err # NoError THEN [err |-> one.err, rows |-> <<>>]
    ELSE IF rest.err # NoError THEN rest
    ELSE [err |-> NoError, rows |-> <<one.row>> \o rest.rows]

RECURSIVE ConvertRows(_, _, _, _)
\* The write loop of CopyOut from record i on: the rows written, or the
\* first conversion error.
ConvertRows(records, structType, schema, i) ==
    IF i > Len(records) THEN [err |-> NoError, rows |-> <<>>]
    ELSE ConvertRow(convertMapToStruct(records[i], structType, schema, i),
                    ConvertRows(records, structType, schema, i + 1))

\* The columns of the file the parquet writer builds from the struct type.
WrittenSchema(structType) ==
    [i \in 1..Len(structType) |->
        Field(structType[i].Column, structType[i].Tag.Type,
              structType[i].Tag.ConvertedType, structType[i].Tag.LogicalType)]

\* What one call of CopyOut does: the error it returns (NoError on success,
\* "panic" when it panics), the file it writes to the destination (Nil when
\* it writes nothing), the schema it encodes with and whether it inferred it.
Outcome(err, out, schemaToUse, inferred) ==
    [err |-> err, out |-> out, schemaToUse |-> schemaToUse, inferred |-> inferred]

Failed(kind) == Outcome(Error(kind, <<>>, 0, <<>>), Nil, Nil, FALSE)

\* CopyOut with a fault: the key/value metadata is not restored.
CopyOutWrittenWithoutMetadata(pMetadata, schemaToUse, inferred, structType, written) ==
    IF written.err # NoError
    THEN Outcome(written.err, Nil, schemaToUse, inferred)
    ELSE Outcome(NoError, File(WrittenSchema(structType), Nil, written.rows),
                 schemaToUse, inferred)

\* CopyOut after the write loop: written is what the loop returned.
CopyOutWritten(pMetadata, schemaToUse, inferred, structType, written) ==
    IF written.err # NoError
    THEN Outcome(written.err, Nil, schemaToUse, inferred)
    ELSE Outcome(NoError, File(WrittenSchema(structType), pMetadata, written.rows),
                 schemaToUse, inferred)

\* CopyOut from createStructTypeFromSchema on.
CopyOutStruct(pMetadata, records, schemaToUse, inferred, structType) ==
    IF structType.panic
    THEN Outcome(Error("panic", <<>>, 0, <<>>), Nil, schemaToUse, inferred)
    ELSE CopyOutWritten(pMetadata, schemaToUse, inferred, structType.fields,
                        ConvertRows(records, structType.fields, schemaToUse, 1))

\* CopyOut from the choice of the schema on.
CopyOutSchema(pMetadata, records, schemaToUse, inferred) ==
    CopyOutStruct(pMetadata, records, schemaToUse, inferred,
                  createStructTypeFromSchema(schemaToUse))

\* CopyOut with a fault: the schema is inferred also when one is stored.
CopyOutRecordsInferring(pSchema, pMetadata, headers, records) ==
    CopyOutSchema(pMetadata, records, inferSchemaWithTypeWidening(records, headers), TRUE)

\* CopyOut from the record maps on.
CopyOutRecords(pSchema, pMetadata, headers, records) ==
    CopyOutSchema(pMetadata, records,
                  IF pSchema # Nil THEN pSchema
                  ELSE inferSchemaWithTypeWidening(records, headers),
                  pSchema = Nil)

\* CopyOut with a fault: a CSV without data rows is accepted.
CopyOutReadWithoutRecords(pSchema, pMetadata, all) ==
    IF all = <<>> THEN Failed("read header")
    ELSE IF ReadAllFails(Head(all), Tail(all)) THEN Failed("read records")
    ELSE CopyOutRecords(pSchema, pMetadata, Head(all), RecordMaps(Head(all), Tail(all)))

\* CopyOut of the records csv.Reader returns, the header the first.
CopyOutRead(pSchema, pMetadata, all) ==
    IF all = <<>> THEN Failed("read header")
    ELSE IF ReadAllFails(Head(all), Tail(all)) THEN Failed("read records")
    ELSE IF Len(Tail(all)) = 0 THEN Failed("no records")
    ELSE CopyOutRecords(pSchema, pMetadata, Head(all), RecordMaps(Head(all), Tail(all)))

\* CopyOut of the CSV file, on a ParquetShovel with the given fields.
CopyOutOf(pSchema, pMetadata, file) == CopyOutRead(pSchema, pMetadata, csvRecords(file))

----------------------------------------------------------------------------
\* The state: one ParquetShovel instance, the temp file and the last call

VARIABLES
    Schema,     \* p.Schema: Nil or [Fields |-> the parquetFields]
    Metadata,   \* p.Metadata: Nil or [list |-> the key/value pairs]
    tmp,        \* the temp file: the CSV records in it
    input,      \* the parquet file of the last CopyIn on this instance when that
                \* CopyIn succeeded; Nil otherwise
    result,     \* the last call: [op, err, out, schemaToUse, inferred]
    streams,    \* what the last call did to its reader and its writer:
                \* [srcClosed, dstClosed, dstWritten]
    files,      \* the file storage: the bytes stored under each URL, or Absent
    flow,       \* the running command of package core: [cmd, pc, source,
                \* destination, calls, err, changes, before, edited, start]
    s3,         \* one s3FileStorage and its object: [readBlob, writeBuff,
                \* object, pending, last]
    multi       \* one MultiShovel: its four flags, shovelInstance, the
                \* number of shovels created and its last call

vars == <<Schema, Metadata, tmp, input, result, streams, files, flow, s3, multi>>

Result(op, outcome) ==
    [op |-> op, err |-> outcome.err, out |-> outcome.out,
     schemaToUse |-> outcome.schemaToUse, inferred |-> outcome.inferred]

Done(op) == Result(op, Outcome(NoError, Nil, Nil, FALSE))

\* The reader src and the writer dst of one call: the number of Close calls on
\* each, and how much of its output the call has written to dst ("none",
\* "part" or "all").
Streams(srcClosed, dstClosed, dstWritten) ==
    [srcClosed |-> srcClosed, dstClosed |-> dstClosed, dstWritten |-> dstWritten]

Untouched == Streams(0, 0, "none")

\* No file under a URL, and a file of these bytes.
Absent == [t |-> "absent"]

Stored(bytes) == [t |-> "file", bytes |-> bytes]

\* The URLs of the storage: two plain files and a compressed one.
Paths == {"a.txt", "b.txt", "b.gz"}

\* No command of package core is running.
Idle ==
    [cmd |-> "", pc |-> "done", source |-> "", destination |-> "",
     calls |-> <<>>, err |-> "", changes |-> FALSE,
     before |-> <<>>, edited |-> <<>>, start |-> <<>>]

\* The last call on the s3FileStorage: its error, the number of calls of
\* PutObject it made, the body it uploaded and the chunks that were written
\* since the previous successful upload when it began.
S3Call(op, err, puts, body, pending) ==
    [op |-> op, err |-> err, puts |-> puts, body |-> body, pending |-> pending]

\* getS3FileStorage: no read blob, no write buffer; object is the S3 object
\* and pending the chunks written since the previous successful upload.
NewS3(object) ==
    [readBlob |-> FALSE, writeBuff |-> Absent, object |-> object,
     pending |-> <<>>, last |-> S3Call("", "", 0, Absent, <<>>)]

Init ==
    /\ Schema = Nil
    /\ Metadata = Nil
    /\ tmp = <<>>
    /\ input = Nil
    /\ result = Done("")
    /\ streams = Untouched
    /\ files = [path \in Paths |-> Absent]
    /\ flow = Idle
    /\ s3 = NewS3(Absent)
    /\ multi = Nil

\* createShovel(shovelTypeParquet): a fresh &ParquetShovel{}.
NewShovel ==
    /\ Schema' = Nil
    /\ Metadata' = Nil
    /\ input' = Nil
    /\ result' = Done("New")
    /\ streams' = Untouched
    /\ UNCHANGED <<tmp, files, flow, s3, multi>>

\* The faults of the source of CopyIn: none, a failing read of the bytes, bytes
\* that are no parquet file, a failing read of the first row.
Faults == {"none", "read", "reader", "record"}

\* The closing of ParquetShovel.CopyIn: "defer src.Close()" is its first
\* statement and dst is closed nowhere. The header is written to dst once the
\* file is open, the rows after it.
CopyInStreamsClosingAtEnd(fault) ==
    Streams(IF fault = "none" THEN 1 ELSE 0, 0,
            IF fault = "none" THEN "all"
            ELSE IF fault = "record" THEN "part" ELSE "none")

CopyInStreams(fault) ==
    Streams(1, 0,
            IF fault = "none" THEN "all"
            ELSE IF fault = "record" THEN "part" ELSE "none")

\* The faults of the destination of CopyIn: a failing write of dst while a
\* record is written, which is when the buffer of the csv.Writer is full, and
\* a failing write of dst in the Flush at the end.
DestinationFaults == {"write", "flush"}

\* The faults after which CopyIn returns nil: a fault that strikes in the
\* deferred Flush is not looked at.
ReturnsNil(fault) == fault \in {"none", "flush"}

\* The faults that end CopyIn before it stores the schema, with a fault:
\* also the read of the first row.
FailsBeforeRows(fault) == fault \in {"read", "reader", "record"}

\* The faults that end CopyIn before it stores the schema.
FailsBeforeSchema(fault) == fault \in {"read", "reader"}

\* What has reached the temp file when CopyIn returns: a failing dst holds
\* nothing.
CopyInDelivered(file, fault) ==
    IF fault \in DestinationFaults THEN <<>>
    ELSE IF fault = "record" THEN <<Headers(extractSchema(file))>>
    ELSE CopyInCSV(file)

\* ParquetShovel.CopyIn(dst, src), src holding the parquet file, dst the
\* fresh temp file.
CopyIn(file, fault) ==
    /\ fault = "record" => Len(file.rows) > 0
    /\ streams' = CopyInStreams(fault)
    /\ UNCHANGED <<files, flow, s3, multi>>
    /\ IF FailsBeforeSchema(fault)
       THEN /\ result' = Result("CopyIn", Failed(fault))
            /\ input' = Nil
            /\ UNCHANGED <<Schema, Metadata, tmp>>
       ELSE /\ Schema' = extractSchema(file)
            /\ Metadata' = file.kv
            /\ tmp' = CopyInDelivered(file, fault)
            /\ IF ReturnsNil(fault)
               THEN /\ input' = file
                    /\ result' = Done("CopyIn")
               ELSE /\ input' = Nil
                    /\ result' = Result("CopyIn", Failed(fault))

\* The editor rewrites the temp file.
Edit(csv) ==
    /\ csv # tmp
    /\ tmp' = csv
    /\ result' = Done("Edit")
    /\ streams' = Untouched
    /\ UNCHANGED <<Schema, Metadata, input, files, flow, s3, multi>>

\* The faults of the writers of CopyOut: none, a failure of the parquet writer
\* over the memory buffer (NewParquetWriter, Write, Flush or WriteStop), a
\* failure of dst while the finished blob is copied to it.
WriteFaults == {"none", "writer", "copy"}

\* The outcome of CopyOut under a fault: a fault strikes a call that has come as
\* far as the writers, and nothing is produced then.
CopyOutFaulted(outcome, fault) ==
    IF fault = "none" \/ outcome.err # NoError
    THEN outcome
    ELSE Outcome(Error(fault, <<>>, 0, <<>>), Nil,
                 outcome.schemaToUse, outcome.inferred)

\* What CopyOut has written to dst when it returns err: its only write to dst
\* is the io.Copy of the finished blob, its last step.
dstWrittenWhileConverting(err) ==
    IF err = NoError THEN "all"
    ELSE IF err.kind \in {"copy", "convert", "writer"} THEN "part" ELSE "none"

dstWritten(err) ==
    IF err = NoError THEN "all"
    ELSE IF err.kind = "copy" THEN "part" ELSE "none"

\* The closing of ParquetShovel.CopyOut: "defer dst.Close()" is its first
\* statement and src is closed nowhere.
CopyOutStreamsClosingAtEnd(err) ==
    Streams(0, IF err = NoError THEN 1 ELSE 0, dstWritten(err))

CopyOutStreams(err) == Streams(0, 1, dstWritten(err))

\* ParquetShovel.CopyOut(dst, src), src the temp file.
CopyOut(fault) ==
    /\ result' = Result("CopyOut",
                        CopyOutFaulted(CopyOutOf(Schema, Metadata, tmp), fault))
    /\ streams' = CopyOutStreams(result'.err)
    /\ UNCHANGED <<Schema, Metadata, tmp, input, files, flow, s3, multi>>

----------------------------------------------------------------------------
\* The inputs

\* The largest number of rows of a parquet file and of data rows of a CSV.
MaxRows == 2

SeqsUpTo(S, n) == UNION {[1..k -> S] : k \in 0..n}

NameA == <<"a">>

NameB == <<"b">>

Text7 == <<"7">>

TextX == <<"x">>

StringColumn(name) == Field(name, "BYTE_ARRAY", "UTF8", NoLogical)

Int64Column(name) == Field(name, "INT64", "", NoLogical)

\* The pandas descriptor of a file whose index column is b.
Pair1 == <<"pandas", "{\"index_columns\": [\"b\"]}">>

Pair2 == <<"ARROW:schema", "AAAA">>

KVs == {Nil, [list |-> <<Pair1>>], [list |-> <<Pair1, Pair2>>], [list |-> <<Pair2, Pair1>>]}

\* Parquet files: a string column, or an integer and a string column.
Files ==
    {File(<<StringColumn(NameA)>>, kv, rows) :
        kv \in KVs, rows \in SeqsUpTo({<<StringVal(TextX)>>}, MaxRows)}
    \cup
    {File(<<Int64Column(NameA), StringColumn(NameB)>>, kv, rows) :
        kv \in KVs, rows \in SeqsUpTo({<<Int64Val(I64(7)), StringVal(TextX)>>}, MaxRows)}

CSV(headers, rows) == <<headers>> \o rows

\* What the editor may leave: an empty file, or a header and rows of which
\* some have another field count than the header, or the columns in another
\* order.
CSVs ==
    {<<>>}
    \cup {CSV(<<NameA>>, rows) :
            rows \in SeqsUpTo({<<Text7>>, <<TextX>>, << <<>> >>, <<Text7, TextX>>}, MaxRows)}
    \cup {CSV(<<NameA, NameB>>, rows) :
            rows \in SeqsUpTo({<<Text7, TextX>>, <<TextX, <<>> >>, <<Text7>>}, MaxRows)}
    \cup {CSV(<<NameB, NameA>>, rows) :
            rows \in SeqsUpTo({<<TextX, Text7>>, << <<>>, Text7>>}, MaxRows)}

Next ==
    \/ NewShovel
    \/ \E file \in Files, fault \in Faults : CopyIn(file, fault)
    \/ \E csv \in CSVs : Edit(csv)
    \/ \E fault \in WriteFaults : CopyOut(fault)

Spec == Init /\ [][Next]_vars

----------------------------------------------------------------------------
\* The inputs of the round trip: CopyIn of a file, then CopyOut of the CSV
\* as CopyIn wrote it.

BoolColumn(name) == Field(name, "BOOLEAN", "", NoLogical)

DoubleColumn(name) == Field(name, "DOUBLE", "", NoLogical)

DateColumn(name) == Field(name, "INT32", "DATE", LogicalDate)

TimestampColumn(name) == Field(name, "INT64", "", Timestamp("NANOS", TRUE))

Text007 == <<"0", "0", "7">>

Text150 == <<"1", ".", "5", "0">>

TextTRUE == <<"T", "R", "U", "E">>

\* The values of the rows: strings that look like numbers or booleans, the
\* day counts around the largest one a time.Duration holds and that of
\* 9999-12-31, the nanosecond count of 2025-08-13 23:07:38.027512 and -1.
StringValues == {StringVal(TextX), StringVal(Text007), StringVal(Text150), StringVal(TextTRUE)}

BoolValues == {BoolVal(TRUE), BoolVal(FALSE)}

Int64Values == {Int64Val(I64(7)), Int64Val(I64(-3)), Int64Val([hi |-> 9007199, lo |-> 254740993])}

DoubleValues == {Float64Val([m |-> 15, e |-> -1]), Float64Val([m |-> 2, e |-> 0]),
                 Float64Val([m |-> 1, e |-> 8])}

DateValues == {Int32Val(d) : d \in {0, -1, 20313, MaxDurationDays, MaxDurationDays + 1, 2932896}}

TimestampValues == {Int64Val([hi |-> 1755126458, lo |-> 27512000]), Int64Val(I64Zero),
                    Int64Val([hi |-> -1, lo |-> 999999999])}

\* The files of one column with up to MaxRows rows of the values.
ColumnFiles(column, values) ==
    {File(<<column>>, Nil, rows) : rows \in SeqsUpTo({<<v>> : v \in values}, MaxRows)}

RoundTripFiles ==
    ColumnFiles(StringColumn(NameA), StringValues)
    \cup ColumnFiles(BoolColumn(NameA), BoolValues)
    \cup ColumnFiles(Int64Column(NameA), Int64Values)
    \cup ColumnFiles(DoubleColumn(NameA), DoubleValues)
    \cup ColumnFiles(DateColumn(NameA), DateValues)
    \cup ColumnFiles(TimestampColumn(NameA), TimestampValues)
    \cup {File(<<Int64Column(NameA), StringColumn(NameB)>>, Nil, <<<<i, t>>>>) :
            i \in Int64Values, t \in StringValues}

NextRoundTrip ==
    \/ \E file \in RoundTripFiles : CopyIn(file, "none")
    \/ \E fault \in WriteFaults : CopyOut(fault)

SpecRoundTrip == Init /\ [][NextRoundTrip]_vars

----------------------------------------------------------------------------
\* The inputs of the conversion: CopyIn of a file of one typed column, an
\* edit of the cells, CopyOut.

Text15 == <<"1", ".", "5">>

TextDate == <<"2", "0", "2", "5", "-", "0", "8", "-", "1", "3">>

TextLooseDate == <<"2", "0", "2", "5", "-", "8", "-", "1", "3">>

TextTimestamp ==
    TextDate \o <<" ", "2", "3", ":", "0", "7", ":", "3", "8", ".",
                  "0", "2", "7", "5", "1", "2", "0", "0", "0">>

ConvertFiles ==
    {File(<<Int64Column(NameA)>>, Nil, << <<Int64Val(I64(7))>> >>),
     File(<<BoolColumn(NameA)>>, Nil, << <<BoolVal(TRUE)>> >>),
     File(<<DoubleColumn(NameA)>>, Nil, << <<Float64Val([m |-> 15, e |-> -1])>> >>),
     File(<<StringColumn(NameA)>>, Nil, << <<StringVal(TextX)>> >>),
     File(<<DateColumn(NameA)>>, Nil, << <<Int32Val(20313)>> >>),
     File(<<TimestampColumn(NameA)>>, Nil,
          << <<Int64Val([hi |-> 1755126458, lo |-> 27512000])>> >>)}

CellTexts == {Text7, Text15, TextTRUE, TextX, TextDate, TextLooseDate, TextTimestamp}

ConvertCSVs ==
    {CSV(<<NameA>>, rows) : rows \in SeqsUpTo({<<t>> : t \in CellTexts}, MaxRows)}

NextConvert ==
    \/ \E file \in ConvertFiles : CopyIn(file, "none")
    \/ \E csv \in ConvertCSVs : Edit(csv)
    \/ \E fault \in WriteFaults : CopyOut(fault)

SpecConvert == Init /\ [][NextConvert]_vars

----------------------------------------------------------------------------
\* The inputs of the inference: a CSV written by hand, CopyOut on a fresh
\* instance.

Text1 == <<"1">>

TextLowerTrue == <<"t", "r", "u", "e">>

\* Cells of every rank.
RankedTexts == {<<>>, TextLowerTrue, Text1, Text15, TextX}

InferCSVs ==
    {CSV(<<NameA, NameB>>, rows) :
        rows \in SeqsUpTo({<<s, t>> : s \in RankedTexts, t \in RankedTexts}, MaxRows)}
    \cup {CSV(<<NameA, NameA>>, rows) :
            rows \in SeqsUpTo({<<s, t>> : s \in {Text1, TextX}, t \in {Text1, TextX}}, MaxRows)}

NextInfer ==
    \/ \E csv \in InferCSVs : Edit(csv)
    \/ \E fault \in WriteFaults : CopyOut(fault)

SpecInfer == Init /\ [][NextInfer]_vars

----------------------------------------------------------------------------
\* The claims checked under Spec

\* The names of the columns of a parquet file, in their order.
ColumnNames(file) == [i \in 1..Len(file.schema) |-> file.schema[i].Name]

\* The data rows of a CSV file whose field count is that of the header (an
\* empty line is no row).
MatchingRows(csv) ==
    {i \in 2..Len(csv) : ~IsEmptyLine(csv[i]) /\ Len(csv[i]) = Len(csv[1])}

\* C1: after a successful CopyIn, the key/value metadata of the file the
\* following CopyOut on the same instance writes is the sequence of pairs
\* CopyIn captured from its input (same pairs, same order), whatever the
\* temp file holds by then.
C1_MetadataPassthrough ==
    (result.op = "CopyOut" /\ input # Nil /\ result.out # Nil)
        => result.out.kv = input.kv

\* C1 happens: a CopyOut after a CopyIn of a file with two pairs and an edit
\* of the rows has written a file.
C1_Witness ==
    /\ result.op = "CopyOut" /\ input # Nil /\ result.out # Nil
    /\ input.kv = [list |-> <<Pair2, Pair1>>]
    /\ tmp # <<ColumnNames(input)>> \o [r \in 1..Len(input.rows) |-> <<TextX>>]
    /\ Len(input.schema) = 1 /\ Len(tmp) = 3

\* C2: after a successful CopyIn, a CopyOut on the same instance that gets
\* as far as choosing a schema encodes with the captured Schema and does not
\* infer, whatever the cells hold; a CopyOut infers only on an instance that
\* holds no Schema.
C2_SchemaReuse ==
    result.op = "CopyOut" =>
        /\ (input # Nil /\ result.schemaToUse # Nil)
              => (result.schemaToUse = [Fields |-> input.schema] /\ ~result.inferred)
        /\ result.inferred => Schema = Nil

\* C2 happens: the captured column is a string column, the cell was edited
\* to an integer literal, and CopyOut has written a string column.
C2_Witness ==
    /\ result.op = "CopyOut" /\ input # Nil /\ result.err = NoError
    /\ input.schema = <<StringColumn(NameA)>>
    /\ tmp = CSV(<<NameA>>, << <<Text7>> >>)
    /\ result.out.schema = <<StringColumn(NameA)>>

\* C8 as stated: in CopyOut a data row whose field count differs from the
\* header's is dropped without an error, and the file written has as many
\* rows as the CSV has data rows of the header's field count.
C8_ArityTolerance ==
    (result.op = "CopyOut" /\ tmp # <<>>) =>
        /\ result.err.kind # "read records"
        /\ result.err = NoError => Len(result.out.rows) = Cardinality(MatchingRows(tmp))

\* C9, amended: CopyIn of a file without rows writes the header line and
\* nothing else; CopyOut of that header-only CSV on the same instance fails
\* with "no records found in CSV" and writes no file.
C9_EmptyFileFails ==
    (input # Nil /\ input.rows = <<>>) =>
        /\ (result.op = "CopyIn" /\ result.err = NoError) => tmp = <<ColumnNames(input)>>
        /\ (result.op = "CopyOut" /\ tmp = <<ColumnNames(input)>>)
              => (result.err.kind = "no records" /\ result.out = Nil)

\* C9 happens: CopyOut has run on the header line CopyIn wrote for a file
\* of two columns and no rows.
C9_Witness ==
    /\ input # Nil /\ input.rows = <<>> /\ Len(input.schema) = 2
    /\ result.op = "CopyOut" /\ tmp = <<ColumnNames(input)>>

\* C9 as stated: CopyOut of the header-only CSV of a file without rows
\* succeeds and writes a file of the same schema and no rows.
C9_EmptyFileRoundTrip ==
    (input # Nil /\ input.rows = <<>>) =>
        /\ (result.op = "CopyIn" /\ result.err = NoError) => tmp = <<ColumnNames(input)>>
        /\ (result.op = "CopyOut" /\ tmp = <<ColumnNames(input)>>)
              => /\ result.err = NoError /\ result.out # Nil
                 /\ result.out.schema = input.schema /\ result.out.rows = <<>>

\* C10: CopyOut of a CSV without a header line, or with a header line and no
\* data row, returns an error and writes no file.
C10_EmptyInput ==
    (result.op = "CopyOut" /\ (tmp = <<>> \/ \A i \in 2..Len(tmp) : IsEmptyLine(tmp[i])))
        => (result.err # NoError /\ result.out = Nil)

\* C10 happens: CopyOut has run on a CSV of a header line and an empty line.
C10_Witness ==
    /\ result.op = "CopyOut" /\ Len(tmp) = 2 /\ IsEmptyLine(tmp[2])
    /\ result.err.kind = "no records"

----------------------------------------------------------------------------
\* The claims checked under SpecRoundTrip

\* Every column of the file is a Boolean, Integer, Float or String column.
PlainColumns(file) ==
    \A i \in 1..Len(file.schema) :
        file.schema[i] \in {BoolColumn(file.schema[i].Name), Int64Column(file.schema[i].Name),
                            DoubleColumn(file.schema[i].Name), StringColumn(file.schema[i].Name)}

\* Every column of the file is a Date or a Timestamp column.
TemporalColumns(file) ==
    \A i \in 1..Len(file.schema) :
        file.schema[i] \in {DateColumn(file.schema[i].Name), TimestampColumn(file.schema[i].Name)}

\* C3 as stated: for a file of Boolean, Integer, Float and String columns
\* without nulls (and with a row: files without rows are C9's), CopyIn and
\* then CopyOut of the unedited CSV on the same instance writes a file of the
\* same column names, the same number of rows and the same value in every
\* row and column.
C3_RoundTripIdentity ==
    (/\ result.op = "CopyOut" /\ input # Nil /\ tmp = CopyInCSV(input)
     /\ PlainColumns(input) /\ input.rows # <<>>)
        => /\ result.err = NoError /\ result.out # Nil
           /\ ColumnNames(result.out) = ColumnNames(input)
           /\ Len(result.out.rows) = Len(input.rows)
           /\ result.out.rows = input.rows

\* C7 as stated: CopyIn renders the day count d of a Date column as the date
\* d days after 1970-01-01 and the nanosecond count n of a Timestamp column
\* as its UTC time, and CopyOut of the rendered text on the same instance
\* stores d, respectively n, again.
C7_DateTimestampStability ==
    (/\ result.op = "CopyOut" /\ input # Nil /\ tmp = CopyInCSV(input)
     /\ TemporalColumns(input) /\ input.rows # <<>>)
        => /\ \A r \in 1..Len(input.rows) : \A c \in 1..Len(input.schema) :
                tmp[r + 1][c] = IF input.schema[c] = DateColumn(input.schema[c].Name)
                                THEN FormatDate(input.rows[r][c].v)
                                ELSE FormatTimestamp(input.rows[r][c].v)
           /\ result.err = NoError /\ result.out # Nil
           /\ result.out.rows = input.rows

----------------------------------------------------------------------------
\* The claims checked under SpecConvert

\* The text is a literal of the column's declared type, for the types C6
\* names: an integer literal for an Integer column, a boolean literal for a
\* Boolean column, YYYY-MM-DD for a Date column, YYYY-MM-DD HH:MM:SS.nnnnnnnnn
\* for a Timestamp column.
ParsesAs(text, field) ==
    IF field.ConvertedType = "DATE" \/ field.LogicalType.kind = "DATE" THEN IsDate(text)
    ELSE IF field.LogicalType.kind = "TIMESTAMP" THEN IsTimestamp(text)
    ELSE IF field.Type \in {"INT32", "INT64"} THEN IsInt(text)
    ELSE IF field.Type = "BOOLEAN" THEN IsBool(text)
    ELSE TRUE

\* C5 as stated: the error of a CopyOut that fails on a cell that does not
\* convert to the type its column has in the stored Schema names the cell's
\* column, the 1-based number of its data row and the text of the cell as it
\* stands in the CSV.
C5_ErrorNamesCell ==
    (result.op = "CopyOut" /\ Schema # Nil /\ result.err.kind = "convert") =>
        \E c \in 1..Len(csvRecords(tmp)[1]) :
            /\ csvRecords(tmp)[1][c] = result.err.field
            /\ result.err.row \in 1..(Len(csvRecords(tmp)) - 1)
            /\ csvRecords(tmp)[result.err.row + 1][c] = result.err.value

\* C6 as stated: with a stored Schema, a non-empty cell whose text is no
\* literal of its column's declared type makes CopyOut fail with a type
\* conversion error; the cell is never coerced.
C6_NoCoercion ==
    (/\ result.op = "CopyOut" /\ input # Nil /\ Schema = [Fields |-> input.schema]
     /\ Len(tmp) >= 2 /\ tmp[1] = ColumnNames(input)
     /\ \E r \in 2..Len(tmp) : \E c \in 1..Len(tmp[1]) :
            tmp[r][c] # <<>> /\ ~ParsesAs(tmp[r][c], input.schema[c]))
        => result.err.kind = "convert"

----------------------------------------------------------------------------
\* The claims checked under SpecInfer

\* The rank of a cell: that of the value parseCSVValue returns for its text.
CellRank(text) == getValueTypeRank(parseCSVValue(text))

\* The largest number of a non-empty set of numbers.
Largest(S) == CHOOSE n \in S : \A m \in S : m <= n

\* C4 as stated: the type CopyOut infers for each column is that of the
\* largest rank of the cells of that column (String for a column of empty
\* cells); being a function of the set of the column's cells, it is the same
\* for every order of the rows.
C4_TypeWidening ==
    (result.op = "CopyOut" /\ result.inferred /\ result.schemaToUse # Nil) =>
        \A c \in 1..Len(tmp[1]) :
            result.schemaToUse.Fields[c].Type
                = typeRankToParquetType(Largest({CellRank(tmp[r][c]) : r \in 2..Len(tmp)}))

-----------------------------------------------------------------------------
\* The reader and the writer of CopyIn and CopyOut

\* The failing paths of CopyOut that lie before the copy of the finished blob
\* to dst: the CSV cannot be read, it has no header or no data row, the schema
\* cannot be inferred or the struct type not be built, a cell does not convert,
\* the parquet writer fails.
BeforeCopy == {"read header", "read records", "no records", "panic", "convert", "writer"}

\* C11: whenever CopyOut fails on one of these paths nothing has been written
\* to dst, and dst holds bytes only when every row was converted and the blob
\* was built, that is on success or when the final copy itself was cut short.
C11_NoWriteBeforeCopy ==
    result.op = "CopyOut" =>
        /\ result.err.kind \in BeforeCopy => streams.dstWritten = "none"
        /\ streams.dstWritten # "none" => result.err.kind \in {"", "copy"}
        /\ streams.dstWritten = "all" <=> result.err = NoError

C11_Witness ==
    /\ result.op = "CopyOut"
    /\ result.err.kind = "convert"
    /\ result.err.row = 2
    /\ streams.dstWritten = "none"

\* C12: on every path of CopyIn the source reader has been closed (once) and
\* the destination writer has not been closed.
C12_CopyInClosesSource ==
    result.op = "CopyIn" => streams.srcClosed = 1 /\ streams.dstClosed = 0

C12_Witness ==
    /\ result.op = "CopyIn"
    /\ result.err.kind = "record"
    /\ streams.srcClosed = 1
    /\ streams.dstClosed = 0

\* C13 as stated: on every path of CopyOut the source reader has been closed
\* and the destination writer has been closed exactly once.
C13_CopyOutClosesBoth ==
    result.op = "CopyOut" => streams.srcClosed >= 1 /\ streams.dstClosed = 1

\* C13, amended: on every path of CopyOut the destination writer has been
\* closed exactly once and the source reader has not been closed.
C13_CopyOutClosesDestination ==
    result.op = "CopyOut" => streams.dstClosed = 1 /\ streams.srcClosed = 0

C13_Witness ==
    /\ result.op = "CopyOut"
    /\ result.err.kind = "no records"
    /\ streams.dstClosed = 1
    /\ streams.srcClosed = 0

-----------------------------------------------------------------------------
\* The order of the columns

\* The index columns the pandas descriptor of a file names.
IndexColumns(file) ==
    IF file.kv # Nil /\ \E i \in 1..Len(file.kv.list) : file.kv.list[i] = Pair1
    THEN <<NameB>> ELSE <<>>

\* The names of seq that are not in names, in their order.
Without(seq, names) == SelectSeq(seq, LAMBDA n : n \notin Range(names))

\* C14: after CopyIn of a file whose pandas descriptor names its physically
\* last column as the index column, the header of the CSV lists the index
\* column first and the other columns after it in physical order.
C14_IndexColumnFirst ==
    (/\ result.op = "CopyIn" /\ result.err = NoError
     /\ IndexColumns(input) # <<>>
     /\ Len(input.schema) > 1
     /\ input.schema[Len(input.schema)].Name = IndexColumns(input)[1])
    => tmp[1] = IndexColumns(input)
                \o Without(ColumnNames(input), IndexColumns(input))

\* The CSV with its two columns exchanged, header and cells together.
Swapped(csv) ==
    [r \in 1..Len(csv) |->
        IF Len(csv[r]) = 2 THEN <<csv[r][2], csv[r][1]>> ELSE csv[r]]

\* The storage value CopyOut is to make of the cell of data row r under the
\* header of the field's name.
CellValue(csv, r, field) ==
    setFieldValue(parquetTypeToGoType(field.Type),
                  parseCSVValue(csv[r + 1][LastIndex(csv[1], field.Name)]),
                  field).v

-----------------------------------------------------------------------------
\* The text round trip: a CSV written by hand, CopyOut on a fresh instance,
\* CopyIn of the file it wrote on another fresh instance

\* CSVs of an integer-or-empty column and a float-, string-or-empty column.
TextCSVs ==
    {CSV(<<NameA, NameB>>, rows) :
        rows \in SeqsUpTo({<<s, t>> : s \in {<<>>, Text1}, t \in {<<>>, Text15, TextX}},
                          MaxRows)}

\* CopyIn, by another fresh instance, of the file CopyOut has just written.
ReadBack ==
    /\ result.op = "CopyOut"
    /\ result.out # Nil
    /\ CopyIn(result.out, "none")

NextText ==
    \/ NewShovel
    \/ \E csv \in TextCSVs : Edit(csv)
    \/ \E fault \in WriteFaults : CopyOut(fault)
    \/ ReadBack

SpecText == Init /\ [][NextText]_vars

\* C16: for a CSV with a header (of distinct names) and at least one data
\* row, CopyOut on a fresh instance writes a file, and CopyIn of that file
\* writes the CSV again: the same header, the same rows in the same order,
\* the same text in every cell.
C16_TextRoundTrip ==
    [][(/\ result.op = "CopyOut" /\ result.inferred
        /\ tmp[1][1] # tmp[1][2]
        /\ result'.op = "CopyIn")
       => tmp' = tmp]_vars

-----------------------------------------------------------------------------
\* The commands of package core: Edit and View over the file storage, with
\* the plain and the gzip shovel.  The temp file tmp holds bytes here.

\* The largest number of bytes of a file's content.
MaxBytes == 1

\* The contents of a file: byte strings.
Contents == SeqsUpTo({"x", "y"}, MaxBytes)

\* isCompressed: the URL ends in ".gz".
isCompressed(fileURL) == fileURL = "b.gz"

\* compress/gzip: the writer frames the bytes with a header and a trailer,
\* and writes both also when there are no bytes; the reader wants the frame.
Compress(bytes) == <<"gzip">> \o bytes \o <<"crc">>

IsGzip(raw) == Len(raw) >= 2 /\ raw[1] = "gzip" /\ raw[Len(raw)] = "crc"

Decompress(raw) == SubSeq(raw, 2, Len(raw) - 1)

\* MultiShovel.determineShovelType for files that are not parquet files.
determineShovelType(fileURL) == IF isCompressed(fileURL) THEN "gzip" ELSE "plain"

\* What CopyIn of the shovel reads from the file raw of the source: the
\* content for the temp file, or an error.
ShovelCopyIn(shovelType, raw) ==
    IF raw = Absent THEN [err |-> "read", content |-> <<>>]
    ELSE IF shovelType = "plain" THEN [err |-> "", content |-> raw.bytes]
    ELSE IF IsGzip(raw.bytes) THEN [err |-> "", content |-> Decompress(raw.bytes)]
    ELSE [err |-> "gzip", content |-> <<>>]

\* localFileStorage.Write then Close: the first Write opens the file with
\* O_CREATE and truncates it, Close without a Write does nothing.  stored is
\* what is under the URL, chunks the byte strings of the calls of Write.
RECURSIVE Concat(_)
Concat(chunks) == IF chunks = <<>> THEN <<>> ELSE Head(chunks) \o Concat(Tail(chunks))

StorageWritten(stored, chunks) ==
    IF chunks = <<>> THEN stored ELSE Stored(Concat(chunks))

\* The calls of Write that CopyOut of the shovel makes on dst for the content
\* of the temp file: io.Copy calls Write for every chunk it has read, and for
\* an empty file it reads none; the gzip writer writes its frame on Close.
ShovelCopyOut(shovelType, content) ==
    IF shovelType = "gzip" THEN <<Compress(content)>>
    ELSE IF content = <<>> THEN <<>> ELSE <<content>>

\* getHash: the MD5 digest of the temp file, read from its start.  No two of
\* the contents here share a digest.
getHash(content) == <<"md5", content>>

\* core.Edit and core.View up to the call of CopyIn: the storages and the
\* shovel are made and newNamedTempFile creates the empty temp file.  View
\* has one storage only, that of the source.
Started(cmd, source, destination) ==
    [cmd |-> cmd, pc |-> "CopyIn", source |-> source, destination |-> destination,
     calls |-> <<>>, err |-> "", changes |-> FALSE,
     before |-> <<>>, edited |-> <<>>, start |-> files]

CoreEdit(source, destination) ==
    /\ flow.pc = "done"
    /\ flow' = Started("Edit", source, destination)
    /\ tmp' = <<>>
    /\ UNCHANGED <<Schema, Metadata, input, result, streams, files, s3, multi>>

CoreView(source) ==
    /\ flow.pc = "done"
    /\ flow' = Started("View", source, source)
    /\ tmp' = <<>>
    /\ UNCHANGED <<Schema, Metadata, input, result, streams, files, s3, multi>>

\* The return of the command with err: the deferred tmp.Close() removes the
\* temp file.
Returned(call, err) ==
    [flow EXCEPT !.pc = "done", !.calls = Append(@, call), !.err = err]

\* shovel.CopyIn(tmp.file, src) in remoteEditWithMetadata and remoteView.
remoteCopyIn ==
    /\ flow.pc = "CopyIn"
    /\ LET read == ShovelCopyIn(determineShovelType(flow.source), files[flow.source])
       IN  IF read.err # ""
           THEN /\ flow' = Returned("CopyIn", read.err)
                /\ tmp' = <<>>
           ELSE /\ flow' = [flow EXCEPT !.pc = "localEdit", !.calls = Append(@, "CopyIn"),
                                        !.before = read.content]
                /\ tmp' = read.content
    /\ UNCHANGED <<Schema, Metadata, input, result, streams, files, s3, multi>>

\* What the commands do with the answer of localEdit: View returns, Edit
\* returns when nothing changed and goes on to CopyOut otherwise.
AfterEditAlways(cmd, changes) == IF cmd = "Edit" THEN "CopyOut" ELSE "done"

AfterEditOnChange(cmd, changes) == IF changes THEN "CopyOut" ELSE "done"

AfterEdit(cmd, changes) == IF cmd = "Edit" /\ changes THEN "CopyOut" ELSE "done"

\* localEdit(tmp.file, localEditor): the digest of the temp file, the editor
\* (which leaves content in the file and may fail), the digest again.
localEdit(content, fails) ==
    /\ flow.pc = "localEdit"
    /\ IF fails
       THEN /\ flow' = [Returned("Editor", "editor") EXCEPT !.edited = content]
            /\ tmp' = <<>>
       ELSE LET changes == getHash(tmp) # getHash(content)
                next == AfterEdit(flow.cmd, changes)
            IN  /\ flow' = [flow EXCEPT !.pc = next, !.calls = Append(@, "Editor"),
                                         !.changes = changes, !.edited = content]
                /\ tmp' = IF next = "done" THEN <<>> ELSE content
    /\ UNCHANGED <<Schema, Metadata, input, result, streams, files, s3, multi>>

\* shovel.CopyOut(dst, tmp.file) in remoteEditWithMetadata; with the fault
\* the storage cannot open the destination for writing.
remoteCopyOut(fault) ==
    /\ flow.pc = "CopyOut"
    /\ LET chunks == ShovelCopyOut(determineShovelType(flow.destination), tmp)
       IN  IF fault /\ chunks # <<>>
           THEN /\ flow' = Returned("CopyOut", "write")
                /\ UNCHANGED files
           ELSE /\ flow' = Returned("CopyOut", "")
                /\ files' = [files EXCEPT ![flow.destination] =
                                StorageWritten(files[flow.destination], chunks)]
    /\ tmp' = <<>>
    /\ UNCHANGED <<Schema, Metadata, input, result, streams, s3, multi>>

\* The storage at the start: every plain file is absent or holds a content,
\* the compressed file is absent, holds a compressed content, or holds bytes
\* that are no gzip stream.
StoredFiles ==
    {f \in [Paths -> {Absent} \cup {Stored(c) : c \in Contents}
                              \cup {Stored(Compress(c)) : c \in Contents}] :
        \A path \in Paths :
            \/ f[path] = Absent
            \/ IsGzip(f[path].bytes) <=> isCompressed(path)
            \/ isCompressed(path) /\ f[path] = Stored(<<"x">>)}

InitCore ==
    /\ Schema = Nil
    /\ Metadata = Nil
    /\ tmp = <<>>
    /\ input = Nil
    /\ result = Done("")
    /\ streams = Untouched
    /\ files \in StoredFiles
    /\ flow = Idle
    /\ s3 = NewS3(Absent)
    /\ multi = Nil

NextCore ==
    \/ \E source, destination \in Paths : CoreEdit(source, destination)
    \/ \E source \in Paths : CoreView(source)
    \/ remoteCopyIn
    \/ \E content \in Contents, fails \in BOOLEAN : localEdit(content, fails)
    \/ \E fault \in BOOLEAN : remoteCopyOut(fault)

SpecCore == InitCore /\ [][NextCore]_vars

-----------------------------------------------------------------------------
\* The claims checked under SpecCore

IsPrefix(s, t) == Len(s) <= Len(t) /\ s = SubSeq(t, 1, Len(s))

\* C17: the calls of a run of Edit come in the order CopyIn, editor, CopyOut,
\* each after the one before it has returned; and when the editor has
\* returned and the digest of the temp file after it is the digest before it,
\* Edit has returned without an error, CopyOut was not called and the storage
\* is as it was when Edit began (the destination not written, not created).
C17_EditOrder ==
    flow.cmd = "Edit" =>
        /\ IsPrefix(flow.calls, <<"CopyIn", "Editor", "CopyOut">>)
        /\ (/\ Len(flow.calls) >= 2
            /\ flow.err # "editor"
            /\ getHash(flow.edited) = getHash(flow.before))
           => /\ flow.pc = "done"
              /\ flow.err = ""
              /\ flow.calls = <<"CopyIn", "Editor">>
              /\ files = flow.start

C17_Witness ==
    /\ flow.cmd = "Edit"
    /\ flow.calls = <<"CopyIn", "Editor">>
    /\ flow.pc = "done"
    /\ flow.err = ""
    /\ flow.before = <<"x">>
    /\ flow.edited = flow.before
    /\ flow.destination # flow.source
    /\ files[flow.destination] = Absent

\* C18: a run of View does not call CopyOut and leaves the storage as it was
\* when View began, whatever the editor did to the temp file.
C18_ViewNeverWrites ==
    flow.cmd = "View" =>
        /\ IsPrefix(flow.calls, <<"CopyIn", "Editor">>)
        /\ files = flow.start

C18_Witness ==
    /\ flow.cmd = "View"
    /\ flow.calls = <<"CopyIn", "Editor">>
    /\ flow.pc = "done"
    /\ flow.err = ""
    /\ flow.changes
    /\ flow.before = <<"x">>
    /\ flow.edited = <<"y">>
    /\ files[flow.source] = Stored(<<"x">>)

\* The content a reader of the URL gets: the bytes, decompressed for a URL of
\* a compressed file.
ContentOf(stored, fileURL) ==
    IF isCompressed(fileURL) THEN Decompress(stored.bytes) ELSE stored.bytes

\* C19: when Edit has returned without an error and the editor changed the
\* temp file, the destination holds the edited content, in the encoding of
\* its URL, and a source under another URL is as it was.
C19_DestinationHoldsEdit ==
    (flow.cmd = "Edit" /\ flow.pc = "done" /\ flow.err = "" /\ flow.changes) =>
        /\ files[flow.destination] # Absent
        /\ isCompressed(flow.destination) => IsGzip(files[flow.destination].bytes)
        /\ ContentOf(files[flow.destination], flow.destination) = flow.edited
        /\ flow.source # flow.destination
              => files[flow.source] = flow.start[flow.source]

-----------------------------------------------------------------------------
\* The S3 storage: Read, Write and Close on one s3FileStorage

\* The largest number of chunks written between two successful uploads.
MaxChunks == 2

\* s3FileStorage.Read: the first Read gets the object, which may fail.
S3Read(fails) ==
    /\ s3' = IF s3.readBlob \/ ~fails
             THEN [s3 EXCEPT !.readBlob = TRUE,
                             !.last = S3Call("Read", "", 0, Absent, s3.pending)]
             ELSE [s3 EXCEPT !.last = S3Call("Read", "get", 0, Absent, s3.pending)]
    /\ UNCHANGED <<Schema, Metadata, tmp, input, result, streams, files, flow, multi>>

\* The write buffer after Write(p): a fresh buffer when there was none, and p
\* appended to it.
writeBuffReplaced(writeBuff, p) == Stored(p)

writeBuffWritten(writeBuff, p) ==
    IF writeBuff = Absent THEN Stored(p) ELSE Stored(writeBuff.bytes \o p)

\* s3FileStorage.Write.
S3Write(p) ==
    /\ Len(s3.pending) < MaxChunks
    /\ s3' = [s3 EXCEPT !.writeBuff = writeBuffWritten(s3.writeBuff, p),
                        !.pending = Append(@, p),
                        !.last = S3Call("Write", "", 0, Absent, s3.pending)]
    /\ UNCHANGED <<Schema, Metadata, tmp, input, result, streams, files, flow, multi>>

\* The storage after putObject in Close: one call of PutObject with the bytes
\* of the write buffer; when it succeeds the buffer is dropped.
S3Put(putFails) ==
    IF putFails
    THEN [s3 EXCEPT !.readBlob = FALSE,
                    !.last = S3Call("Close", "put", 1, s3.writeBuff, s3.pending)]
    ELSE [s3 EXCEPT !.readBlob = FALSE, !.writeBuff = Absent,
                    !.object = s3.writeBuff, !.pending = <<>>,
                    !.last = S3Call("Close", "", 1, s3.writeBuff, s3.pending)]

\* s3FileStorage.Close: the body of the read blob is closed, which may fail
\* and ends Close then; a write buffer is uploaded.
S3Close(bodyFails, putFails) ==
    /\ s3' = IF s3.readBlob /\ bodyFails
             THEN [s3 EXCEPT !.last = S3Call("Close", "body", 0, Absent, s3.pending)]
             ELSE IF s3.writeBuff # Absent
             THEN S3Put(putFails)
             ELSE [s3 EXCEPT !.readBlob = FALSE,
                             !.last = S3Call("Close", "", 0, Absent, s3.pending)]
    /\ UNCHANGED <<Schema, Metadata, tmp, input, result, streams, files, flow, multi>>

InitS3 ==
    /\ Schema = Nil
    /\ Metadata = Nil
    /\ tmp = <<>>
    /\ input = Nil
    /\ result = Done("")
    /\ streams = Untouched
    /\ files = [path \in Paths |-> Absent]
    /\ flow = Idle
    /\ s3 \in {NewS3(Absent), NewS3(Stored(<<"x">>))}
    /\ multi = Nil

NextS3 ==
    \/ \E fails \in BOOLEAN : S3Read(fails)
    \/ \E p \in Contents : S3Write(p)
    \/ \E bodyFails, putFails \in BOOLEAN : S3Close(bodyFails, putFails)

SpecS3 == InitS3 /\ [][NextS3]_vars

\* C20 as stated: PutObject is called in Close only, and a Close calls it
\* once when chunks were written since the previous successful upload and not
\* at all otherwise.
C20_UploadInEveryClose ==
    /\ s3.last.op \in {"Read", "Write"} => s3.last.puts = 0
    /\ s3.last.op = "Close" =>
          s3.last.puts = IF s3.last.pending # <<>> THEN 1 ELSE 0

\* C20, amended: PutObject is called in Close only; a Close calls it once when chunks
\* were written since the previous successful upload (and the read body, if
\* one is open, closes without an error) and not at all otherwise, so not
\* after Reads only and not in a Close repeated after a successful one; the
\* body is the concatenation, in call order, of the chunks written since the
\* previous successful upload, and becomes the object when PutObject succeeds.
C20_UploadProtocol ==
    /\ s3.last.op \in {"Read", "Write"} => s3.last.puts = 0
    /\ s3.last.op = "Close" =>
          /\ s3.last.puts = IF s3.last.pending # <<>> /\ s3.last.err # "body"
                            THEN 1 ELSE 0
          /\ s3.last.puts = 1 => s3.last.body = Stored(Concat(s3.last.pending))
          /\ s3.last.err = "" =>
                /\ s3.pending = <<>>
                /\ s3.last.puts = 1 => s3.object = s3.last.body
    /\ s3.pending = <<>> <=> s3.writeBuff = Absent

C20_Witness ==
    /\ s3.last.op = "Close"
    /\ s3.last.err = ""
    /\ s3.last.puts = 1
    /\ s3.last.pending = << <<"x">>, <<"y">> >>
    /\ s3.object = Stored(<<"x", "y">>)

-----------------------------------------------------------------------------
\* S3 metadata preservation: Edit from one S3 object to an S3 destination

\* The keys and values of custom metadata; "__content-type" is the key under
\* which GetMetadata hands over the content type.
MetaKeys == {"custom-header", "__content-type"}

MetaValues == {"a", "b"}

\* map[string]string as a set of <<key, value>> pairs with one pair per key;
\* a nil map and an empty map are the same set.
MetaMaps ==
    {m \in SUBSET (MetaKeys \X MetaValues) : \A p, q \in m : p[1] = q[1] => p = q}

\* aws.String(v): a *string that is not nil; a nil *string is Nil.
awsString(v) == [t |-> "string", v |-> v]

Pointers == {Nil} \cup {awsString(v) : v \in MetaValues}

\* The metadata preservation fields of s3FileStorage, which are also the
\* headers of GetObjectOutput and PutObjectInput (content language and
\* expires are handled like content encoding and are left out).
ObjectHeaders(metadata, contentType, cacheControl, contentEncoding) ==
    [metadata |-> metadata, contentType |-> contentType,
     cacheControl |-> cacheControl, contentEncoding |-> contentEncoding]

\* getS3FileStorage leaves all of them nil.
NoHeaders == ObjectHeaders({}, Nil, Nil, Nil)

\* s3FileStorage.preserveMetadata.
preserveMetadata(output) ==
    ObjectHeaders(output.metadata, output.contentType, output.cacheControl,
            output.contentEncoding)

\* s3FileStorage.applyPreservedMetadata on a new PutObjectInput.
applyPreservedMetadata(s) ==
    ObjectHeaders(s.metadata,
            IF s.contentType # Nil THEN s.contentType ELSE Nil,
            IF s.cacheControl # Nil THEN s.cacheControl ELSE Nil,
            IF s.contentEncoding # Nil THEN s.contentEncoding ELSE Nil)

\* result[k] = v in a Go map: the pair of key k is replaced.
MapSet(map, k, v) == {p \in map : p[1] # k} \cup {<<k, v>>}

\* result[key] = *pointer when the pointer is not nil.
MapSetPointer(map, key, pointer) ==
    IF pointer # Nil THEN MapSet(map, key, pointer.v) ELSE map

\* s3FileStorage.GetMetadata: the custom metadata, then the headers under
\* their special keys.
GetMetadata(s) ==
    MapSetPointer(
        MapSetPointer(
            MapSetPointer(s.metadata, "__content-type", s.contentType),
            "__cache-control", s.cacheControl),
        "__content-encoding", s.contentEncoding)

\* The special keys of SetMetadata's switch.
SpecialKeys == {"__content-type", "__cache-control", "__content-encoding"}

\* The field SetMetadata assigns for a special key: the value of the key in
\* the map when it is there, and the old pointer otherwise.
SetPointer(metadata, key, pointer) ==
    IF \E p \in metadata : p[1] = key
    THEN awsString((CHOOSE p \in metadata : p[1] = key)[2])
    ELSE pointer

\* s3FileStorage.SetMetadata: a new custom map of the keys that are not
\* special, and the special keys into their fields.
SetMetadata(s, metadata) ==
    ObjectHeaders({p \in metadata : p[1] \notin SpecialKeys},
            SetPointer(metadata, "__content-type", s.contentType),
            SetPointer(metadata, "__cache-control", s.cacheControl),
            SetPointer(metadata, "__content-encoding", s.contentEncoding))

\* An Edit between S3 storages: same tells whether source and destination
\* are one URL and so one instance, object holds the headers of the source
\* object, src and dst the preservation fields of the two instances and put
\* the headers of the PutObjectInput, once PutObject was called.
MetaEdit(pc, same, object, src, dst, put) ==
    [pc |-> pc, same |-> same, object |-> object, src |-> src, dst |-> dst,
     put |-> put]

\* shovel.CopyIn(tmp.file, src): the first Read gets the object and
\* preserves its headers; when GetObject fails the Edit returns the error.
MetaCopyIn(fails) ==
    /\ s3.pc = "CopyIn"
    /\ s3' = IF fails
             THEN [s3 EXCEPT !.pc = "returned"]
             ELSE [s3 EXCEPT !.pc = "transfer",
                             !.src = preserveMetadata(s3.object)]
    /\ UNCHANGED <<Schema, Metadata, tmp, input, result, streams, files, flow, multi>>

\* The metadata transfer of remoteEditWithMetadata, for src != dst.
MetaTransfer ==
    /\ s3.pc = "transfer"
    /\ s3' = IF s3.same
             THEN [s3 EXCEPT !.pc = "localEdit"]
             ELSE [s3 EXCEPT !.pc = "localEdit",
                             !.dst = SetMetadata(s3.dst, GetMetadata(s3.src))]
    /\ UNCHANGED <<Schema, Metadata, tmp, input, result, streams, files, flow, multi>>

\* localEdit: without changes the Edit returns and nothing is written.
MetaLocalEdit(changes) ==
    /\ s3.pc = "localEdit"
    /\ s3' = [s3 EXCEPT !.pc = IF changes THEN "CopyOut" ELSE "returned"]
    /\ UNCHANGED <<Schema, Metadata, tmp, input, result, streams, files, flow, multi>>

\* shovel.CopyOut(dst, tmp.file): Write and Close on dst, which is src for
\* one URL; Close calls putObject with the preserved headers applied.
MetaCopyOut ==
    /\ s3.pc = "CopyOut"
    /\ s3' = [s3 EXCEPT !.pc = "returned",
                        !.put = applyPreservedMetadata(
                                    IF s3.same THEN s3.src ELSE s3.dst)]
    /\ UNCHANGED <<Schema, Metadata, tmp, input, result, streams, files, flow, multi>>

InitMeta ==
    /\ Schema = Nil
    /\ Metadata = Nil
    /\ tmp = <<>>
    /\ input = Nil
    /\ result = Done("")
    /\ streams = Untouched
    /\ files = [path \in Paths |-> Absent]
    /\ flow = Idle
    /\ multi = Nil
    /\ \E same \in BOOLEAN, metadata \in MetaMaps,
          contentType, cacheControl, contentEncoding \in Pointers :
          s3 = MetaEdit("CopyIn", same,
                        ObjectHeaders(metadata, contentType, cacheControl,
                                contentEncoding),
                        NoHeaders, NoHeaders, Absent)

NextMeta ==
    \/ \E fails \in BOOLEAN : MetaCopyIn(fails)
    \/ MetaTransfer
    \/ \E changes \in BOOLEAN : MetaLocalEdit(changes)
    \/ MetaCopyOut

SpecMeta == InitMeta /\ [][NextMeta]_vars

\* C21: the PutObject of an Edit between S3 storages carries the custom
\* metadata map, the content type, the cache control and the content encoding
\* of the object the source storage read, on the same instance and on a
\* different destination alike.
C21_MetadataPreserved ==
    s3.put # Absent => s3.put = s3.object

-----------------------------------------------------------------------------
\* Null cells: CopyIn of files with OPTIONAL columns

\* What the parquet reader returns for a null of an OPTIONAL column: the
\* struct field is a pointer and a null is a nil pointer, which
\* extractFieldValues does not dereference and hands on as it is; it is
\* another value than the untyped nil.
NilPointer == [t |-> "ptr"]

\* Files of one OPTIONAL column of every type, each cell a value or a null.
NullFiles ==
    ColumnFiles(StringColumn(NameA), {StringVal(TextX), NilPointer})
    \cup ColumnFiles(BoolColumn(NameA), {BoolVal(TRUE), NilPointer})
    \cup ColumnFiles(Int64Column(NameA), {Int64Val(I64(7)), NilPointer})
    \cup ColumnFiles(DoubleColumn(NameA), {Float64Val([m |-> 15, e |-> -1]), NilPointer})
    \cup ColumnFiles(DateColumn(NameA), {Int32Val(20313), NilPointer})
    \cup ColumnFiles(TimestampColumn(NameA), {Int64Val(I64Zero), NilPointer})

NextNull ==
    \/ NewShovel
    \/ \E file \in NullFiles, fault \in Faults : CopyIn(file, fault)

SpecNull == Init /\ [][NextNull]_vars

\* C22: in the CSV a successful CopyIn wrote, the cell of every null of the
\* file is the empty string.
C22_NullIsEmpty ==
    (result.op = "CopyIn" /\ result.err = NoError /\ input # Nil) =>
        \A r \in 1..Len(input.rows) : \A c \in 1..Len(input.rows[r]) :
            input.rows[r][c] = NilPointer => tmp[r + 1][c] = <<>>

-----------------------------------------------------------------------------
\* C23: after a CopyOut with a captured Schema that succeeded, every cell of
\* a String column is stored as the text of its CSV cell, character for
\* character, also when the text parses as an integer, a float or a boolean.
C23_StringColumnLiteral ==
    (/\ result.op = "CopyOut" /\ result.err = NoError /\ result.out # Nil
     /\ Schema # Nil /\ Len(tmp) >= 2 /\ tmp[1] = Headers(Schema))
        => \A r \in 2..Len(tmp) : \A c \in 1..Len(tmp[1]) :
              Schema.Fields[c] = StringColumn(Schema.Fields[c].Name)
                  => result.out.rows[r - 1][c] = StringVal(tmp[r][c])

-----------------------------------------------------------------------------
\* The types of the columns through CopyIn and CopyOut

\* The units and UTC flags of a Timestamp column.
TimestampUnits == {"MILLIS", "MICROS", "NANOS"}

TimestampColumnOf(name, unit, utc) == Field(name, "INT64", "", Timestamp(unit, utc))

\* Files of one Timestamp column of every unit and flag.
TimestampFiles ==
    UNION {ColumnFiles(TimestampColumnOf(NameA, unit, utc), {Int64Val(I64Zero)}) :
              unit \in TimestampUnits, utc \in BOOLEAN}

NextTypes ==
    \/ \E file \in RoundTripFiles \cup TimestampFiles : CopyIn(file, "none")
    \/ \E fault \in WriteFaults : CopyOut(fault)

SpecTypes == Init /\ [][NextTypes]_vars

\* The semantic annotation of a column: Date, given as converted or as
\* logical type, Timestamp with its unit and UTC flag, or none.
Annotation(field) ==
    IF field.ConvertedType = "DATE" \/ field.LogicalType.kind = "DATE" THEN LogicalDate
    ELSE IF field.LogicalType.kind = "TIMESTAMP" THEN field.LogicalType
    ELSE NoLogical

\* C24: after CopyIn and a successful CopyOut on the same instance every
\* column of the output has the storage type and the semantic annotation of
\* the input column: Date stays Date, Timestamp stays Timestamp with the same
\* unit and the same UTC flag.
C24_TypesPreserved ==
    (/\ result.op = "CopyOut" /\ result.err = NoError /\ result.out # Nil
     /\ input # Nil /\ Schema = extractSchema(input))
        => /\ Len(result.out.schema) = Len(input.schema)
           /\ \A c \in 1..Len(input.schema) :
                 /\ result.out.schema[c].Type = input.schema[c].Type
                 /\ Annotation(result.out.schema[c]) = Annotation(input.schema[c])

-----------------------------------------------------------------------------
\* C25: a CopyOut that infers the schema from a CSV with a header and at
\* least one data row, every row of the header's field count, never fails
\* with a type conversion error: every cell converts to the type inferred
\* for its column.
C25_WideningLossless ==
    (/\ result.op = "CopyOut" /\ Schema = Nil /\ Len(tmp) >= 2
     /\ \A r \in 2..Len(tmp) : Len(tmp[r]) = Len(tmp[1]))
        => result.err.kind # "convert"

-----------------------------------------------------------------------------
\* MultiShovel: the shovel instance it keeps between CopyIn and CopyOut

\* The largest number of shovels one MultiShovel creates.
MaxCreated == 3

\* MultiShovel.determineShovelType on the flags of m.
shovelTypeOf(m, isSource) ==
    IF isSource
    THEN IF m.SourceParquet THEN "parquet"
         ELSE IF m.SourceCompressed THEN "gzip" ELSE "plain"
    ELSE IF m.DestinationParquet THEN "parquet"
         ELSE IF m.DestinationCompressed THEN "gzip" ELSE "plain"

\* createShovel: a fresh shovel, the id-th one created; a ParquetShovel has
\* no Schema and no Metadata, the other shovels have no fields at all.
createShovel(shovelType, id) ==
    [id |-> id, type |-> shovelType, Schema |-> Nil, Metadata |-> Nil]

\* The shovel after its CopyIn of src: a ParquetShovel that got as far as
\* the schema holds the Schema and the Metadata of the file.
ShovelAfterCopyIn(shovel, src, fault) ==
    IF shovel.type = "parquet" /\ fault \notin {"read", "reader"}
    THEN [shovel EXCEPT !.Schema = extractSchema(src), !.Metadata = src.kv]
    ELSE shovel

\* What the CopyIn of a shovel writes to the temp file: the CSV of the
\* parquet file, or the content of src, which is a CSV here.
ShovelWritten(shovel, src, fault) ==
    IF fault \in {"read", "reader"} THEN <<>>
    ELSE IF shovel.type # "parquet" THEN src
    ELSE IF fault = "record" THEN <<Headers(extractSchema(src))>>
    ELSE CopyInCSV(src)

\* The last call of a MultiShovel: kept is m.shovelInstance before the call,
\* on the shovel the call ran on, as the call found it, src the source.
MultiCall(op, kept, on, src) == [op |-> op, kept |-> kept, on |-> on, src |-> src]

\* &shovel.MultiShovel{...}: the flags, no shovel instance.
NewMultiShovel(sc, dc, sp, dp) ==
    [SourceCompressed |-> sc, DestinationCompressed |-> dc,
     SourceParquet |-> sp, DestinationParquet |-> dp,
     shovelInstance |-> Nil, created |-> 0, src |-> Nil,
     last |-> MultiCall("", Nil, Nil, Nil)]

\* The sources: parquet files for a parquet source, CSV text otherwise.
MultiSources(parquet) ==
    IF parquet
    THEN {File(<<StringColumn(NameA)>>, kv, << <<StringVal(TextX)>> >>) :
             kv \in {Nil, [list |-> <<Pair1>>]}}
         \cup {File(<<Int64Column(NameA)>>, Nil, << <<Int64Val(I64(7))>> >>)}
    ELSE {CSV(<<NameA>>, << <<Text7>> >>), CSV(<<NameA>>, << <<TextX>> >>)}

\* MultiShovel.CopyIn: a shovel of the source type is created, kept, and its
\* CopyIn called; parquet tells whether src is a parquet file.
MultiCopyIn(parquet, src, fault) ==
    /\ multi.created < MaxCreated
    /\ parquet = multi.SourceParquet
    /\ (fault = "record" /\ multi.SourceParquet) => Len(src.rows) > 0
    /\ LET shovel == createShovel(shovelTypeOf(multi, TRUE), multi.created + 1)
       IN  /\ multi' = [multi EXCEPT
                           !.shovelInstance = ShovelAfterCopyIn(shovel, src, fault),
                           !.created = @ + 1,
                           !.src = src,
                           !.last = MultiCall("CopyIn", multi.shovelInstance, shovel, src)]
           /\ tmp' = ShovelWritten(shovel, src, fault)
           /\ result' = Result("CopyIn", IF fault = "none" THEN Outcome(NoError, Nil, Nil, FALSE)
                                         ELSE Failed(fault))
    /\ UNCHANGED <<Schema, Metadata, input, streams, files, flow, s3>>

\* The shovel the CopyOut of m runs on, as reusing tells: the kept one, or
\* a new one of the destination type.
CopyOutShovel(m, reusing) ==
    IF reusing THEN m.shovelInstance
    ELSE createShovel(shovelTypeOf(m, FALSE), m.created + 1)

\* The choice with a fault: the kept shovel whenever there is one.
ReusesKept(m) == m.shovelInstance # Nil

\* The choice of MultiShovel.CopyOut.
Reuses(m) ==
    m.shovelInstance # Nil /\ shovelTypeOf(m, FALSE) = shovelTypeOf(m, TRUE)

\* What the CopyOut of a shovel does with the temp file: a ParquetShovel
\* encodes it with its Schema and Metadata, the others copy the content.
ShovelCopyOutOf(shovel, content) ==
    IF shovel.type = "parquet"
    THEN CopyOutOf(shovel.Schema, shovel.Metadata, content)
    ELSE Outcome(NoError, [type |-> shovel.type, content |-> content], Nil, FALSE)

\* MultiShovel.CopyOut; a new shovel is not kept.
MultiCopyOut ==
    /\ multi.created < MaxCreated
    /\ LET shovel == CopyOutShovel(multi, Reuses(multi))
       IN  /\ multi' = [multi EXCEPT
                           !.created = IF Reuses(multi) THEN @ ELSE @ + 1,
                           !.last = MultiCall("CopyOut", multi.shovelInstance,
                                              shovel, multi.src)]
           /\ result' = Result("CopyOut", ShovelCopyOutOf(shovel, tmp))
    /\ UNCHANGED <<Schema, Metadata, tmp, input, streams, files, flow, s3>>

\* The editor between the two calls.
MultiEdit(csv) ==
    /\ csv # tmp
    /\ tmp' = csv
    /\ result' = Done("Edit")
    /\ UNCHANGED <<Schema, Metadata, input, streams, files, flow, s3, multi>>

InitMulti ==
    /\ Schema = Nil
    /\ Metadata = Nil
    /\ tmp = <<>>
    /\ input = Nil
    /\ result = Done("")
    /\ streams = Untouched
    /\ files = [path \in Paths |-> Absent]
    /\ flow = Idle
    /\ s3 = NewS3(Absent)
    /\ \E sc, dc, sp, dp \in BOOLEAN : multi = NewMultiShovel(sc, dc, sp, dp)

NextMulti ==
    \/ \E parquet \in BOOLEAN, fault \in Faults :
          \E src \in MultiSources(parquet) : MultiCopyIn(parquet, src, fault)
    \/ \E csv \in MultiSources(FALSE) : MultiEdit(csv)
    \/ MultiCopyOut

SpecMulti == InitMulti /\ [][NextMulti]_vars

\* C26: MultiShovel.CopyOut runs on the instance the preceding CopyIn ran on
\* and left in shovelInstance exactly when there was a CopyIn and the source
\* and destination shovel types are equal, and on a new instance without
\* Schema and Metadata otherwise; every CopyIn runs on a new instance and
\* keeps it, so a CopyOut sees no state but that of the latest CopyIn.
C26_InstanceReuse ==
    /\ multi.last.op = "CopyOut" =>
          /\ IF multi.last.kept # Nil
                /\ shovelTypeOf(multi, TRUE) = shovelTypeOf(multi, FALSE)
             THEN multi.last.on = multi.last.kept
             ELSE /\ multi.last.on = createShovel(shovelTypeOf(multi, FALSE), multi.created)
                  /\ multi.last.on # multi.last.kept
          /\ multi.last.on.Schema # Nil =>
                multi.last.on.Schema = extractSchema(multi.last.src)
          /\ multi.last.on.Metadata # Nil =>
                multi.last.on.Metadata = multi.last.src.kv
    /\ multi.last.op = "CopyIn" =>
          /\ multi.last.on = createShovel(shovelTypeOf(multi, TRUE), multi.created)
          /\ multi.shovelInstance.id = multi.created
          /\ multi.last.kept # Nil => multi.last.kept.id < multi.created

C26_Witness ==
    /\ multi.last.op = "CopyOut"
    /\ multi.created = 2
    /\ multi.last.on.id = 2
    /\ multi.last.on.type = "parquet"
    /\ multi.last.on.Metadata = [list |-> <<Pair1>>]
    /\ result.err = NoError

-----------------------------------------------------------------------------
\* C27: CopyOut of a CSV whose header holds one name twice succeeds and
\* writes both columns, each with the values of its own CSV column.
C27_DuplicateNames ==
    (/\ result.op = "CopyOut" /\ Len(tmp) >= 2 /\ tmp[1] = <<NameA, NameA>>
     /\ result.err.kind \notin {"writer", "copy"})
        => /\ result.err = NoError /\ result.out # Nil
           /\ ColumnNames(result.out) = <<NameA, NameA>>
           /\ \A r \in 2..Len(tmp) : \A c \in 1..2 :
                 result.out.rows[r - 1][c] \in
                     {parseCSVValue(tmp[r][c]), StringVal(tmp[r][c])}

-----------------------------------------------------------------------------
\* C28: on one ParquetShovel, Schema and Metadata change in CopyIn only; a
\* CopyIn that fails before the schema is extracted leaves both as they
\* were, every other CopyIn sets both from one and the same file, its input;
\* CopyOut, successful or failed, leaves both as they were and so never
\* stores the schema it inferred.
C28_SchemaMetadataFrame ==
    [][/\ result'.op \in {"CopyOut", "Edit"} =>
             (Schema' = Schema /\ Metadata' = Metadata)
       /\ result'.op = "CopyIn" =>
             IF result'.err.kind \in {"read", "reader"}
             THEN Schema' = Schema /\ Metadata' = Metadata
             ELSE /\ \E file \in Files :
                        Schema' = extractSchema(file) /\ Metadata' = file.kv
                  /\ input' # Nil =>
                        Schema' = extractSchema(input') /\ Metadata' = input'.kv]_vars

\* A failed CopyOut after a CopyIn that captured a Schema and two pairs of
\* Metadata.
C28_Witness ==
    /\ result.op = "CopyOut"
    /\ result.err.kind = "convert"
    /\ Schema = [Fields |-> <<Int64Column(NameA), StringColumn(NameB)>>]
    /\ Metadata = [list |-> <<Pair2, Pair1>>]

-----------------------------------------------------------------------------
\* The destination of CopyIn: a temp file whose writes may fail

NextWrite ==
    \/ NewShovel
    \/ \E file \in Files, fault \in Faults \cup DestinationFaults : CopyIn(file, fault)

SpecWrite == Init /\ [][NextWrite]_vars

\* C29: when CopyIn returns no error the destination holds the complete CSV,
\* the header and one line for each row of the file; so a write of the
\* destination that fails, in the final flush too, makes CopyIn return an
\* error.
C29_NoErrorMeansDelivered ==
    (result.op = "CopyIn" /\ result.err = NoError) =>
        /\ input # Nil
        /\ tmp = CopyInCSV(input)
        /\ Len(tmp) = Len(input.rows) + 1
        /\ streams.dstWritten = "all"

-----------------------------------------------------------------------------
\* Columns of the Schema and columns of the CSV that do not match

NameC == <<"c">>

\* What the editor may leave: a CSV without one or both columns of the
\* Schema, and with a column the Schema does not have.
ColumnCSVs ==
    {CSV(<<NameB>>, rows) : rows \in SeqsUpTo({<<TextX>>, <<Text7>>}, MaxRows)}
    \cup {CSV(<<NameA>>, rows) : rows \in SeqsUpTo({<<TextX>>, <<Text7>>}, MaxRows)}
    \cup {CSV(<<NameC>>, rows) : rows \in SeqsUpTo({<<TextX>>}, MaxRows)}
    \cup {CSV(<<NameC, NameA>>, rows) :
            rows \in SeqsUpTo({<<TextX, Text7>>, <<Text7, TextX>>}, MaxRows)}

NextColumns ==
    \/ \E file \in Files : CopyIn(file, "none")
    \/ \E csv \in ColumnCSVs : Edit(csv)
    \/ \E fault \in WriteFaults : CopyOut(fault)

SpecColumns == Init /\ [][NextColumns]_vars

\* The names of the CSV header.
HeaderNames(csv) == {csv[1][c] : c \in 1..Len(csv[1])}

\* C30: in a CopyOut with a captured Schema, a column of the Schema whose
\* name is not in the CSV header is written with the zero value of its type
\* in every row, and a CSV column whose name is not in the Schema is not
\* written; an error is a failure of the writers or names a cell of a column
\* that is in both.
C30_UnmatchedColumns ==
    (result.op = "CopyOut" /\ Schema # Nil /\ Len(tmp) >= 2) =>
        /\ result.err # NoError =>
              \/ result.err.kind \in {"writer", "copy"}
              \/ /\ result.err.kind = "convert"
                 /\ result.err.field \in HeaderNames(tmp)
                 /\ \E c \in 1..Len(Schema.Fields) :
                        Schema.Fields[c].Name = result.err.field
        /\ result.err = NoError =>
              /\ ColumnNames(result.out) = Headers(Schema)
              /\ Len(result.out.rows) = Len(tmp) - 1
              /\ \A r \in 1..Len(result.out.rows) : \A c \in 1..Len(Schema.Fields) :
                    Schema.Fields[c].Name \notin HeaderNames(tmp) =>
                        result.out.rows[r][c] =
                            IF Schema.Fields[c].Type = "INT64"
                            THEN Int64Val(I64Zero) ELSE StringVal(<<>>)

\* The Schema has the Integer column a and the String column b, the CSV the
\* columns c and a: b is written as "", c is not written.
C30_Witness ==
    /\ result.op = "CopyOut"
    /\ result.err = NoError
    /\ Schema = [Fields |-> <<Int64Column(NameA), StringColumn(NameB)>>]
    /\ tmp = CSV(<<NameC, NameA>>, << <<TextX, Text7>> >>)
    /\ result.out.rows = << <<Int64Val(I64(7)), StringVal(<<>>)>> >>

====
